---- MODULE Spec2Model ----
(***************************************************************************)
(* A model of pkg/db/handlers.go of mlrun/controller: the HTTP handlers    *)
(* that store, update, read, list and delete run and artifact documents in *)
(* a v3io key-value container, with the attribute encoder, the filter      *)
(* builder, the YAML/JSON codec and the dot-path merge they are built on.  *)
(*                                                                         *)
(* Representation.                                                         *)
(*   - Strings are TLA+ strings, read character by character with SubSeq.  *)
(*   - A JSON scalar is a record [k, s, n]: k = "s" a string s, k = "n" a  *)
(*     JSON number whose decimal text is s, k = "i" a Go int64 n (used     *)
(*     for the derived epoch attributes).                                  *)
(*   - A JSON document is a function from paths (sequences of object keys) *)
(*     to scalars whose domain is prefix-free; the root scalar 5 is        *)
(*     (<<>> :> Num("5")), the empty object is the empty function. The     *)
(*     element i of an array has the key "[i]". Where a text holds two     *)
(*     members of one name, the key of the earlier one is the name with a  *)
(*     tab in front; the names of the documents drawn begin with no tab.   *)
(*     In a YAML text a string is a scalar that the parser reads as a      *)
(*     string, and a number is a plain scalar written in the grammar of    *)
(*     JSON numbers, with leading zeros or without, or as Go's formatters  *)
(*     write it; what the parser reads it as is for the codec to say.      *)
(*   - A byte blob is a record [marker, syntax, form, doc]: marker says    *)
(*     whether the bytes begin with "---", syntax names the grammar the    *)
(*     bytes are written in, form says whether the bytes are the client's  *)
(*     own text or the output of a library serializer, doc is the value.   *)
(***************************************************************************)
EXTENDS Integers, Sequences, FiniteSets, TLC

\* store: the backend's items by path; upd: the request each process is in
\* the middle of; last: the response the latest step has sent, NoResponse
\* when the step has sent none; clock: the steps that could change the store;
\* floatStyles: the patterns by which the YAML parser of the build may tell a
\* float from a string. The repository pins no release of gopkg.in/yaml.v2,
\* and the releases differ in the pattern: the build has one of them, and the
\* model holds both for as long as the parser has read no text that they
\* read differently.
VARIABLES store, upd, last, clock, floatStyles

vars == <<store, upd, last, clock, floatStyles>>

(***************************************************************************)
(* Strings                                                                 *)
(***************************************************************************)
Char(s, i) == SubSeq(s, i, i)

Digits == {"0", "1", "2", "3", "4", "5", "6", "7", "8", "9"}

LowerLetters ==
  {"a", "b", "c", "d", "e", "f", "g", "h", "i", "j", "k", "l", "m",
   "n", "o", "p", "q", "r", "s", "t", "u", "v", "w", "x", "y", "z"}

UpperToLower ==
  "A" :> "a" @@ "B" :> "b" @@ "C" :> "c" @@ "D" :> "d" @@ "E" :> "e" @@
  "F" :> "f" @@ "G" :> "g" @@ "H" :> "h" @@ "I" :> "i" @@ "J" :> "j" @@
  "K" :> "k" @@ "L" :> "l" @@ "M" :> "m" @@ "N" :> "n" @@ "O" :> "o" @@
  "P" :> "p" @@ "Q" :> "q" @@ "R" :> "r" @@ "S" :> "s" @@ "T" :> "t" @@
  "U" :> "u" @@ "V" :> "v" @@ "W" :> "w" @@ "X" :> "x" @@ "Y" :> "y" @@
  "Z" :> "z"

UpperLetters == DOMAIN UpperToLower

RECURSIVE ToLowerFrom(_, _)
ToLowerFrom(s, i) ==
  IF i > Len(s) THEN ""
  ELSE (IF Char(s, i) \in UpperLetters THEN UpperToLower[Char(s, i)] ELSE Char(s, i))
       \o ToLowerFrom(s, i + 1)

\* strings.ToLower
ToLower(s) == ToLowerFrom(s, 1)

HasPrefix(s, p) == Len(s) >= Len(p) /\ SubSeq(s, 1, Len(p)) = p

HasSuffix(s, p) == Len(s) >= Len(p) /\ SubSeq(s, Len(s) - Len(p) + 1, Len(s)) = p

\* The character at position i, "" past the end.
At(s, i) == IF i >= 1 /\ i <= Len(s) THEN SubSeq(s, i, i) ELSE ""

RECURSIVE AllDigitsFrom(_, _)
AllDigitsFrom(s, i) ==
  IF i > Len(s) THEN TRUE ELSE Char(s, i) \in Digits /\ AllDigitsFrom(s, i + 1)

DigitValue ==
  "0" :> 0 @@ "1" :> 1 @@ "2" :> 2 @@ "3" :> 3 @@ "4" :> 4 @@
  "5" :> 5 @@ "6" :> 6 @@ "7" :> 7 @@ "8" :> 8 @@ "9" :> 9

RECURSIVE NatOf(_, _, _)
NatOf(s, i, acc) ==
  IF i > Len(s) THEN acc ELSE NatOf(s, i + 1, 10 * acc + DigitValue[Char(s, i)])

\* The value of a text of decimal digits.
Atoi(s) == NatOf(s, 1, 0)

RECURSIVE NatText(_)
\* The decimal text of a natural number.
NatText(n) ==
  IF n < 10 THEN Char("0123456789", n + 1)
  ELSE NatText(n \div 10) \o Char("0123456789", (n % 10) + 1)

RECURSIVE StripZerosFrom(_, _)
StripZerosFrom(s, i) ==
  IF i >= Len(s) THEN SubSeq(s, i, Len(s))
  ELSE IF Char(s, i) = "0" THEN StripZerosFrom(s, i + 1)
  ELSE SubSeq(s, i, Len(s))

\* A text of digits without its leading zeros ("0" for zero).
StripZeros(s) == StripZerosFrom(s, 1)

RECURSIVE DigitsLeqFrom(_, _, _)
DigitsLeqFrom(a, b, i) ==
  IF i > Len(a) THEN TRUE
  ELSE IF DigitValue[Char(a, i)] < DigitValue[Char(b, i)] THEN TRUE
  ELSE IF DigitValue[Char(a, i)] > DigitValue[Char(b, i)] THEN FALSE
  ELSE DigitsLeqFrom(a, b, i + 1)

\* a <= b for two texts of digits without leading zeros.
DigitsLeq(a, b) ==
  Len(a) < Len(b) \/ (Len(a) = Len(b) /\ DigitsLeqFrom(a, b, 1))

\* math.MaxInt64 and -math.MinInt64, in decimal text.
MaxInt64Text == "9223372036854775807"

MinInt64Digits == "9223372036854775808"

\* Whether the integer with the sign and the digits fits a Go int (64 bits).
FitsInt64(negative, digits) ==
  DigitsLeq(StripZeros(digits), IF negative THEN MinInt64Digits ELSE MaxInt64Text)

\* The printable ASCII characters in the order of their codes, without the
\* backquote, which a TLA+ string cannot hold.
ASCII ==
  " !\"#$%&'()*+,-./0123456789:;<=>?@ABCDEFGHIJKLMNOPQRSTUVWXYZ[\\]^_abcdefghijklmnopqrstuvwxyz{|}~"

RECURSIVE CodeFrom(_, _)
CodeFrom(c, i) == IF i > Len(ASCII) \/ Char(ASCII, i) = c THEN i ELSE CodeFrom(c, i + 1)

RECURSIVE BytesLessFrom(_, _, _)
BytesLessFrom(s, t, i) ==
  IF i > Len(t) THEN FALSE
  ELSE IF i > Len(s) THEN TRUE
  ELSE IF Char(s, i) = Char(t, i) THEN BytesLessFrom(s, t, i + 1)
  ELSE CodeFrom(Char(s, i), 1) < CodeFrom(Char(t, i), 1)

\* s < t in the order of the bytes (the order json.Marshal writes map keys in).
BytesLess(s, t) == BytesLessFrom(s, t, 1)

\* All orders in which the elements of a finite set can be visited (Go's map
\* iteration order is unspecified).
RECURSIVE Orders(_)
Orders(S) ==
  IF S = {} THEN {<<>>}
  ELSE UNION {{<<x>> \o order : order \in Orders(S \ {x})} : x \in S}

(***************************************************************************)
(* Scalars, documents, blobs                                               *)
(***************************************************************************)
Str(x) == [k |-> "s", s |-> x, n |-> 0]

Num(text) == [k |-> "n", s |-> text, n |-> 0]

Int64(v) == [k |-> "i", s |-> "", n |-> v]

\* The JSON value null.
Null == [k |-> "z", s |-> "", n |-> 0]

EmptyDoc == [p \in {} |-> Str("")]

IsPrefix(p, q) == Len(p) <= Len(q) /\ SubSeq(q, 1, Len(p)) = p

Leaf(x) == (<<>> :> x)

\* The value found at a path of a document: the sub-document below it.
SubDoc(doc, path) ==
  [q \in {SubSeq(p, Len(path) + 1, Len(p)) : p \in {r \in DOMAIN doc : IsPrefix(path, r)}}
     |-> doc[path \o q]]

HasPath(doc, path) == \E p \in DOMAIN doc : IsPrefix(path, p)

\* The name of a member that is written in the text before a member of the
\* name `key`.
Earlier(key) == "\t" \o key

RECURSIVE FirstMember(_, _)
\* The first of the members of the name in the text of the object: the one
\* gjson finds.
FirstMember(doc, key) ==
  IF HasPath(doc, <<Earlier(key)>>) THEN FirstMember(doc, Earlier(key)) ELSE key

\* The name a member has that is written in front of the members of the
\* object: sjson writes it there also when the object has a member of the
\* name that gjson did not find.
NewMember(doc, key) ==
  IF HasPath(doc, <<key>>) THEN Earlier(FirstMember(doc, key)) ELSE key

RECURSIVE MemberName(_)
\* The name of a member as the text has it.
MemberName(key) ==
  IF At(key, 1) = "\t" THEN MemberName(SubSeq(key, 2, Len(key))) ELSE key

\* The document as a decoder that keeps the last of the members of one name
\* reads it.
LastMembers(doc) ==
  [p \in {q \in DOMAIN doc : \A i \in 1 .. Len(q) : At(q[i], 1) # "\t"} |-> doc[p]]

JSONBlob(form, doc) == [marker |-> FALSE, syntax |-> "json", form |-> form, doc |-> doc]

YAMLBlob(marker, form, doc) == [marker |-> marker, syntax |-> "yaml", form |-> form, doc |-> doc]

\* Bytes that are neither well-formed JSON nor well-formed YAML.
BadBlob(marker) == [marker |-> marker, syntax |-> "bad", form |-> "client", doc |-> EmptyDoc]

\* []byte("")
EmptyBytes == [marker |-> FALSE, syntax |-> "empty", form |-> "lib", doc |-> EmptyDoc]

(***************************************************************************)
(* Merge-patch engine                                                      *)
(***************************************************************************)
\* The key of the element i of an array in the path of a document.
IndexKey(i) == "[" \o NatText(i) \o "]"

IsIndexKey(k) ==
  Len(k) >= 3 /\ Char(k, 1) = "[" /\ Char(k, Len(k)) = "]"
  /\ AllDigitsFrom(SubSeq(k, 2, Len(k) - 1), 1)

IndexOf(k) == Atoi(SubSeq(k, 2, Len(k) - 1))

IsScalarDoc(doc) == <<>> \in DOMAIN doc

IsArrayDoc(doc) ==
  DOMAIN doc # {} /\ ~IsScalarDoc(doc) /\ \A p \in DOMAIN doc : IsIndexKey(p[1])

\* The number of elements of an array.
ArrayLen(doc) ==
  IF DOMAIN doc = {} THEN 0
  ELSE 1 + (CHOOSE n \in {IndexOf(p[1]) : p \in DOMAIN doc} :
              \A p \in DOMAIN doc : IndexOf(p[1]) <= n)

\* The first position >= i of s that holds one of the characters, Len(s) + 1
\* if none does.
RECURSIVE FindChar(_, _, _)
FindChar(s, chars, i) ==
  IF i > Len(s) \/ Char(s, i) \in chars THEN i ELSE FindChar(s, chars, i + 1)

RECURSIVE Zeros(_)
Zeros(n) == IF n <= 0 THEN "" ELSE "0" \o Zeros(n - 1)

RECURSIVE StripTrailingZeros(_)
StripTrailingZeros(s) ==
  IF s # "" /\ Char(s, Len(s)) = "0" THEN StripTrailingZeros(SubSeq(s, 1, Len(s) - 1))
  ELSE s

\* The leading zeros of a text of digits.
LeadingZeros(s) == FindChar(s, Digits \ {"0"}, 1) - 1

\* The exponent of a JSON number: the text after the 'e', an optional sign
\* and digits; 0 when the number has none.
ExponentOf(x) ==
  IF x = "" THEN 0
  ELSE IF Char(x, 1) = "-" THEN 0 - Atoi(SubSeq(x, 2, Len(x)))
  ELSE IF Char(x, 1) = "+" THEN Atoi(SubSeq(x, 2, Len(x)))
  ELSE Atoi(x)

\* The decimal of a mantissa without its point (all), which has `whole`
\* digits in front of the point and `lead` leading zeros, times 10^exponent.
DecimalOf(negative, all, whole, lead, exponent) ==
  [negative |-> negative,
   digits   |-> StripTrailingZeros(SubSeq(all, lead + 1, Len(all))),
   point    |-> IF lead = Len(all) THEN 0 ELSE whole - lead + exponent]

DecimalDigits(negative, all, whole, exponent) ==
  DecimalOf(negative, all, whole, LeadingZeros(all), exponent)

\* The mantissa with its point at position dot.
DecimalPoint(negative, mantissa, dot, exponent) ==
  DecimalDigits(negative,
                SubSeq(mantissa, 1, dot - 1) \o SubSeq(mantissa, dot + 1, Len(mantissa)),
                dot - 1, exponent)

\* The number without its sign, with its 'e' at position e.
DecimalExponent(negative, body, e) ==
  DecimalPoint(negative, SubSeq(body, 1, e - 1), FindChar(SubSeq(body, 1, e - 1), {"."}, 1),
               ExponentOf(SubSeq(body, e + 1, Len(body))))

DecimalBody(negative, body) == DecimalExponent(negative, body, FindChar(body, {"e", "E"}, 1))

\* The float64 a JSON number decodes to (strconv.ParseFloat), as the decimal
\* it stands for: [negative, digits, point], the value being 0.digits times
\* 10^point, digits without leading or trailing zeros and "" for zero. A
\* text of at most 15 significant digits and of a magnitude between 1e-300
\* and 1e300 is read and written back digit for digit.
Decimal(s) ==
  DecimalBody(At(s, 1) = "-", IF At(s, 1) = "-" THEN SubSeq(s, 2, Len(s)) ELSE s)

\* The float64s the model formats: those that a decimal of at most 15
\* significant digits names exactly.
ExactFloat(d) == Len(d.digits) <= 15 /\ (d.digits # "" => d.point \in -299 .. 301)

Sign(d) == IF d.negative THEN "-" ELSE ""

\* strconv.AppendFloat(b, f, 'f', -1, 64): the shortest decimal that reads
\* back as f, without exponent.
FormatF(d) ==
  CASE ExactFloat(d) ->
    Sign(d) \o
      (IF d.digits = "" THEN "0"
       ELSE IF d.point <= 0 THEN "0." \o Zeros(0 - d.point) \o d.digits
       ELSE IF d.point >= Len(d.digits) THEN d.digits \o Zeros(d.point - Len(d.digits))
       ELSE SubSeq(d.digits, 1, d.point) \o "." \o SubSeq(d.digits, d.point + 1, Len(d.digits)))

\* strconv.AppendFloat(b, f, 'e', -1, 64) of a float other than zero: an
\* exponent of two digits at least. encoding/json cleans e-0X up to e-X.
FormatE(d, cleaned) ==
  LET x  == d.point - 1
      ax == IF x < 0 THEN 0 - x ELSE x
  IN  CASE ExactFloat(d) /\ d.digits # "" ->
        Sign(d) \o Char(d.digits, 1)
          \o (IF Len(d.digits) > 1 THEN "." \o SubSeq(d.digits, 2, Len(d.digits)) ELSE "")
          \o "e" \o (IF x < 0 THEN "-" ELSE "+")
          \o (IF ax < 10 /\ ~(cleaned /\ x < 0) THEN "0" ELSE "") \o NatText(ax)

\* strconv.FormatFloat(v, 'f', -1, 64) of the float64 a JSON number decodes to.
FormatFloat(s) == FormatF(Decimal(s))

\* encoding/json's floatEncoder: the exponent form below 1e-6 and from 1e21 on.
MarshalDecimal(d) ==
  IF d.digits # "" /\ (d.point <= -6 \/ d.point >= 22) THEN FormatE(d, TRUE) ELSE FormatF(d)

\* json.Marshal of the float64 a number decodes to.
MarshalFloat(s) == MarshalDecimal(Decimal(s))

(***************************************************************************)
(* Document codec                                                          *)
(***************************************************************************)
isYAML(data) == data.marker

\* The text of a JSON number that strconv.ParseInt reads as a Go int: an
\* optional sign and digits, within 64 bits.
IsIntText(s) ==
  LET negative == HasPrefix(s, "-")
      digits   == IF negative THEN SubSeq(s, 2, Len(s)) ELSE s
  IN  Len(digits) > 0 /\ AllDigitsFrom(digits, 1) /\ FitsInt64(negative, digits)

\* The decimal text of the int a number text was read as.
IntText(s) == IF s = "-0" THEN "0" ELSE s

\* math.MaxUint64, in decimal text.
MaxUint64Text == "18446744073709551615"

\* math.MaxInt64, -math.MinInt64 and math.MaxUint64, in octal text.
MaxInt64Octal == "777777777777777777777"

MinInt64Octal == "1000000000000000000000"

MaxUint64Octal == "1777777777777777777777"

\* The octal texts whose value the model computes.
MaxOctalLen == 10

OctalDigits == {"0", "1", "2", "3", "4", "5", "6", "7"}

RECURSIVE AllOctalFrom(_, _)
AllOctalFrom(s, i) ==
  IF i > Len(s) THEN TRUE ELSE Char(s, i) \in OctalDigits /\ AllOctalFrom(s, i + 1)

RECURSIVE OctalOf(_, _, _)
OctalOf(s, i, acc) ==
  IF i > Len(s) THEN acc ELSE OctalOf(s, i + 1, 8 * acc + DigitValue[Char(s, i)])

\* A plain scalar without its minus sign.
Unsigned(s) == IF HasPrefix(s, "-") THEN SubSeq(s, 2, Len(s)) ELSE s

\* strconv.ParseInt(s, 0, 64) takes the base from the text: digits behind a
\* leading zero are octal.
IsOctalText(digits) == Len(digits) > 1 /\ Char(digits, 1) = "0"

\* yaml.v2's resolve of a plain scalar: ParseInt(plain, 0, 64) and
\* ParseUint(plain, 0, 64) are tried before the float pattern, so that a
\* text of digits within int64 or uint64 decodes to an integer; behind a
\* leading zero a digit 8 or 9 makes both fail.
IsYAMLInt(s) ==
  IF IsOctalText(Unsigned(s))
  THEN /\ AllOctalFrom(Unsigned(s), 1)
       /\ DigitsLeq(StripZeros(Unsigned(s)),
                    IF HasPrefix(s, "-") THEN MinInt64Octal ELSE MaxUint64Octal)
  ELSE \/ IsIntText(s)
       \/ Len(s) > 0 /\ AllDigitsFrom(s, 1) /\ DigitsLeq(s, MaxUint64Text)

\* The decimal text of the integer with the sign and the octal digits.
OctalText(negative, digits) ==
  CASE Len(digits) <= MaxOctalLen ->
    IF OctalOf(digits, 1, 0) = 0 THEN "0"
    ELSE (IF negative THEN "-" ELSE "") \o NatText(OctalOf(digits, 1, 0))

\* The decimal text of the integer that resolve read.
YAMLIntText(s) ==
  IF IsOctalText(Unsigned(s)) THEN OctalText(HasPrefix(s, "-"), StripZeros(Unsigned(s)))
  ELSE IntText(s)

\* The patterns yamlStyleFloat has had: "signed" is
\* ^[-+]?[0-9]*\.?[0-9]+([eE][-+][0-9]+)?$, where an exponent needs its sign,
\* "free" is ^[-+]?(\.[0-9]+|[0-9]+(\.[0-9]*)?)([eE][-+]?[0-9]+)?$.
FloatStyles == {"signed", "free"}

\* The mantissa of the pattern, whose point is at position dot.
IsMantissa(m, dot, style) ==
  /\ AllDigitsFrom(SubSeq(m, 1, dot - 1), 1)
  /\ AllDigitsFrom(SubSeq(m, dot + 1, Len(m)), 1)
  /\ IF dot > Len(m) THEN Len(m) > 0
     ELSE IF style = "signed" THEN dot < Len(m)
     ELSE Len(m) > 1

\* The exponent of the pattern, the text behind the 'e'.
IsExponent(x, style) ==
  IF At(x, 1) \in {"-", "+"} THEN Len(x) > 1 /\ AllDigitsFrom(x, 2)
  ELSE style = "free" /\ Len(x) > 0 /\ AllDigitsFrom(x, 1)

\* The number without its sign, with its 'e' at position e.
IsFloatBody(body, e, style) ==
  /\ IsMantissa(SubSeq(body, 1, e - 1), FindChar(SubSeq(body, 1, e - 1), {"."}, 1), style)
  /\ e > Len(body) \/ IsExponent(SubSeq(body, e + 1, Len(body)), style)

\* yamlStyleFloat.MatchString(plain): a plain scalar that is no integer is a
\* float where the pattern matches it, and a string where it does not.
IsYAMLFloat(s, style) == IsFloatBody(Unsigned(s), FindChar(Unsigned(s), {"e", "E"}, 1), style)

\* strconv.AppendFloat(b, f, 'g', -1, 64): the exponent form for an exponent
\* below -4 or from 6 on.
FormatGDecimal(d) ==
  IF d.digits # "" /\ (d.point < -3 \/ d.point > 6) THEN FormatE(d, FALSE) ELSE FormatF(d)

\* yaml.Marshal of the float64 a number decodes to.
FormatG(s) == FormatGDecimal(Decimal(s))

\* What a number text read by yaml.v2's resolve is written as by yaml.Marshal
\* (toYAML) or by json.Marshal: an integer in decimal, a float as the
\* encoder formats a float64, and a string, which both encoders write so
\* that it reads as a string again, as it is.
ReencodedNumber(s, toYAML, style) ==
  IF IsYAMLInt(s) THEN Num(YAMLIntText(s))
  ELSE IF ~IsYAMLFloat(s, style) THEN Str(s)
  ELSE IF toYAML THEN Num(FormatG(s))
  ELSE Num(MarshalFloat(s))

\* A document decoded by yaml.Unmarshal into interface{} and written by
\* yaml.Marshal (toYAML) or by json.Marshal: of the members of one name the
\* decoder keeps the last.
Reencoded(doc, toYAML, style) ==
  LET kept == LastMembers(doc)
  IN  [p \in DOMAIN kept |->
         IF kept[p].k # "n" THEN kept[p] ELSE ReencodedNumber(kept[p].s, toYAML, style)]

\* yaml.YAMLToJSON: the document decoded by the YAML parser, which reads
\* JSON text too, and written by json.Marshal. Empty bytes decode to nil,
\* which is written as null.
YAMLToJSON(data, style) ==
  IF data.syntax \in {"yaml", "json"}
  THEN [err |-> FALSE, data |-> JSONBlob("lib", Reencoded(data.doc, FALSE, style))]
  ELSE IF data.syntax = "empty"
  THEN [err |-> FALSE, data |-> JSONBlob("lib", Leaf(Null))]
  ELSE [err |-> TRUE, data |-> EmptyBytes]

\* yaml.JSONToYAML: the document decoded by the YAML parser and written by
\* yaml.Marshal, in block style with no leading document-separator line.
JSONToYAML(data, style) ==
  IF data.syntax \in {"yaml", "json"}
  THEN [err |-> FALSE, data |-> YAMLBlob(FALSE, "lib", Reencoded(data.doc, TRUE, style))]
  ELSE IF data.syntax = "empty"
  THEN [err |-> FALSE, data |-> YAMLBlob(FALSE, "lib", Leaf(Null))]
  ELSE [err |-> TRUE, data |-> EmptyBytes]

convertDataToJSON(data, style) ==
  IF isYAML(data) THEN YAMLToJSON(data, style) ELSE [err |-> FALSE, data |-> data]

\* Whether the releases of the parser read the text differently.
Tells(data) ==
  isYAML(data) /\ \E s, t \in FloatStyles : YAMLToJSON(data, s) # YAMLToJSON(data, t)

\* The styles under which a build that may have the styles reads the text:
\* each of them where the text tells them apart, any one where it does not.
Readers(styles, data) == IF Tells(data) THEN styles ELSE {CHOOSE s \in styles : TRUE}

\* The styles the build may have after it has read the text under the style.
Learned(styles, data, style) == IF Tells(data) THEN {style} ELSE styles

\* A value decoded into interface{} and written back by sjson: a number goes
\* through float64. sjson formats a value that is a number itself with
\* FormatFloat; an object or an array goes through json.Marshal.
jsonValue(value) ==
  [p \in DOMAIN value |->
     IF value[p].k # "n" THEN value[p]
     ELSE IF p = <<>> THEN Num(FormatFloat(value[p].s))
     ELSE Num(MarshalFloat(value[p].s))]

\* The document with `value` (a sub-document) placed at `path`: what was at
\* the path or below it is replaced, a scalar met on the way down is replaced
\* by an object, everything else is kept.
SetPath(doc, path, value) ==
  LET kept == {p \in DOMAIN doc : ~IsPrefix(p, path) /\ ~IsPrefix(path, p)}
      new  == {path \o q : q \in DOMAIN value}
  IN  [p \in kept \cup new |->
         IF p \in new THEN value[SubSeq(p, Len(path) + 1, Len(p))] ELSE doc[p]]

\* One component of an sjson path: the key with its escapes removed, the
\* component as it is handed to gjson (its escapes kept), and whether a ':'
\* in front of it forces it to be an object key.
PathPart(part, gpart, force) == [part |-> part, gpart |-> gpart, force |-> force]

RECURSIVE parsePathFrom(_, _, _, _, _, _)
parsePathFrom(path, i, cur, g, force, acc) ==
  IF i > Len(path) THEN [err |-> FALSE, parts |-> Append(acc, PathPart(cur, g, force))]
  ELSE IF Char(path, i) = "."
  THEN LET f == At(path, i + 1) = ":"
       IN  parsePathFrom(path, IF f THEN i + 2 ELSE i + 1, "", "", f,
                         Append(acc, PathPart(cur, g, force)))
  ELSE IF Char(path, i) \in {"*", "?", "#"} THEN [err |-> TRUE, parts |-> <<>>]
  ELSE IF Char(path, i) = "\\"
  THEN parsePathFrom(path, i + 2, cur \o At(path, i + 1),
                     g \o "\\" \o At(path, i + 1), force, acc)
  ELSE parsePathFrom(path, i + 1, cur \o Char(path, i), g \o Char(path, i), force, acc)

\* sjson's parsePath, applied until the key is used up: the key is cut at its
\* unescaped dots, a backslash takes the next character literally, a leading
\* ':' forces an object key, and an unescaped '*', '?' or '#' is an error.
parsePath(path) ==
  LET f == At(path, 1) = ":"
  IN  parsePathFrom(path, IF f THEN 2 ELSE 1, "", "", f, <<>>)

\* sjson's atoui: whether the component is an array index, and the index.
atoui(p) ==
  LET ok == ~p.force /\ AllDigitsFrom(p.part, 1)
  IN  [ok |-> ok, n |-> IF ok THEN Atoi(p.part) ELSE 0]

\* The modifiers gjson knows.
Modifiers == {"reverse", "ugly", "pretty"}

\* gjson's execModifier: whether the path, which begins with '@', names a
\* modifier; the name ends at the first ':', '|' or '.'.
execModifier(path) ==
  SubSeq(path, 2, FindChar(path, {":", "|", "."}, 2) - 1) \in Modifiers

RECURSIVE SkipQuoted(_, _)
\* The position after the string that opens before position i; a backslash
\* skips the character after it.
SkipQuoted(path, i) ==
  IF i > Len(path) THEN i
  ELSE IF Char(path, i) = "\\" THEN SkipQuoted(path, i + 2)
  ELSE IF Char(path, i) = "\"" THEN i + 1
  ELSE SkipQuoted(path, i + 1)

RECURSIVE parseSubSelectors(_, _, _)
\* gjson's parseSubSelectors from position i on, `depth` brackets being
\* open: [ok, out], out being the path that follows the closing bracket. A
\* backslash skips the character after it, a quote the string it opens.
parseSubSelectors(path, i, depth) ==
  IF i > Len(path) THEN [ok |-> FALSE, out |-> ""]
  ELSE IF Char(path, i) = "\\" THEN parseSubSelectors(path, i + 2, depth)
  ELSE IF Char(path, i) = "\""
  THEN parseSubSelectors(path, SkipQuoted(path, i + 1), depth)
  ELSE IF Char(path, i) \in {"[", "(", "{"} THEN parseSubSelectors(path, i + 1, depth + 1)
  ELSE IF Char(path, i) \in {"]", ")", "}"}
  THEN IF depth = 1 THEN [ok |-> TRUE, out |-> SubSeq(path, i + 1, Len(path))]
       ELSE parseSubSelectors(path, i + 1, depth - 1)
  ELSE parseSubSelectors(path, i + 1, depth)

RECURSIVE parseObjectPath(_, _, _)
\* gjson's parseObjectPath on a path without dots and wildcards: [piped,
\* part], the part up to the first '|' that no backslash escapes, with its
\* escapes removed.
parseObjectPath(path, i, part) ==
  IF i > Len(path) THEN [piped |-> FALSE, part |-> part]
  ELSE IF Char(path, i) = "|" THEN [piped |-> TRUE, part |-> part]
  ELSE IF Char(path, i) = "\\" THEN parseObjectPath(path, i + 2, part \o At(path, i + 1))
  ELSE parseObjectPath(path, i + 1, part \o Char(path, i))

\* The member or element gjson looks for: [some, part, raw], part being
\* the name parseObjectPath looks a member up by and raw the path as
\* parseArrayPath, which knows no escapes, takes it. The answer of a
\* modifier, of a sub-selector and of a pipe has no index, so that sjson
\* takes the path as absent. A path that begins with a bracket which is
\* not a sub-selector on its own is looked up by what follows the bracket,
\* and by the empty name when the bracket is not closed.
gjsonPath(path) ==
  LET sub  == parseSubSelectors(path, 2, 1)
      rest == parseObjectPath(sub.out, 1, "")
      all  == parseObjectPath(path, 1, "")
  IN  IF Len(path) > 1 /\ Char(path, 1) = "@" /\ execModifier(path)
      THEN [some |-> FALSE, part |-> "", raw |-> ""]
      ELSE IF Len(path) > 1 /\ Char(path, 1) \in {"[", "{"}
      THEN IF sub.ok /\ At(sub.out, 1) \in {"", "|", "."}
           THEN [some |-> FALSE, part |-> "", raw |-> ""]
           ELSE [some |-> ~rest.piped, part |-> rest.part, raw |-> sub.out]
      ELSE [some |-> ~all.piped, part |-> all.part, raw |-> path]

\* What gjson.Get finds of the part in the document. The element of an array
\* is found by a path of digits only: a backslash, also one in front of a
\* digit, makes the path no index.
gjsonFind(doc, g) ==
  IF ~g.some \/ IsScalarDoc(doc) THEN [found |-> FALSE, key |-> ""]
  ELSE IF IsArrayDoc(doc)
  THEN IF g.raw # "" /\ AllDigitsFrom(g.raw, 1) /\ Atoi(g.raw) < ArrayLen(doc)
       THEN [found |-> TRUE, key |-> IndexKey(Atoi(g.raw))]
       ELSE [found |-> FALSE, key |-> ""]
  ELSE [found |-> HasPath(doc, <<g.part>>), key |-> FirstMember(doc, g.part)]

\* gjson.Get(json, paths[0].gpart) with res.Index > 0: the member of an
\* object the component names, or the element of an array it indexes.
gjsonGet(doc, p) == gjsonFind(doc, gjsonPath(p.gpart))

\* n nulls, the elements from..from+n-1 of an array.
Nulls(from, n) == [p \in {<<IndexKey(j)>> : j \in from .. (from + n - 1)} |-> Null]

RECURSIVE appendBuild(_, _, _)
\* sjson's appendBuild: the value below component i of a path no part of which
\* exists yet, wrapped in an array for a component that is an index or "-1"
\* and in an object for any other.
appendBuild(parts, i, value) ==
  IF i = Len(parts) THEN value
  ELSE LET a == atoui(parts[i + 1])
           inner == appendBuild(parts, i + 1, value)
       IN  IF a.ok \/ (~parts[i + 1].force /\ parts[i + 1].part = "-1")
           THEN SetPath(Nulls(0, a.n), <<IndexKey(a.n)>>, inner)
           ELSE SetPath(EmptyDoc, <<parts[i + 1].part>>, inner)

RECURSIVE appendRawPaths(_, _, _, _)
\* sjson's appendRawPaths from component i on: [err, doc].
appendRawPaths(doc, parts, i, value) ==
  LET p == parts[i]
      a == atoui(p)
      f == gjsonGet(doc, p)
      fresh == IsScalarDoc(doc)
      base == IF fresh THEN EmptyDoc ELSE doc
      isArray == IF fresh THEN a.ok ELSE IsArrayDoc(doc)
      len == ArrayLen(base)
      at == IF a.ok /\ a.n > len THEN a.n ELSE len
  IN  IF f.found
      THEN IF i < Len(parts)
           THEN LET r == appendRawPaths(SubDoc(doc, <<f.key>>), parts, i + 1, value)
                IN  IF r.err THEN r
                    ELSE [err |-> FALSE, doc |-> SetPath(doc, <<f.key>>, r.doc)]
           ELSE [err |-> FALSE, doc |-> SetPath(doc, <<f.key>>, value)]
      ELSE IF ~isArray
      THEN [err |-> FALSE,
            doc |-> SetPath(base, <<NewMember(base, p.part)>>, appendBuild(parts, i, value))]
      ELSE IF ~a.ok /\ ~(p.part = "-1" /\ ~p.force)
      THEN [err |-> TRUE, doc |-> doc]
      ELSE [err |-> FALSE,
            doc |-> SetPath(Nulls(len, at - len) @@ base, <<IndexKey(at)>>,
                            appendBuild(parts, i, value))]

\* sjson.SetBytes(jsonBody, key, value). Bytes that gjson does not read as a
\* JSON object or array (empty bytes, block-style YAML text, a scalar) are
\* replaced by "{}", or by "[]" when the first component is an index.
\* Whether the set starts from the document of the body; it starts from
\* null when the body is no object or array.
SetKeeps(jsonBody) == jsonBody.syntax = "json" /\ ~IsScalarDoc(jsonBody.doc)

\* What SetBytes answers, path being the parsed key and r the document built.
SetAnswer(jsonBody, key, path, r) ==
  IF key = "" \/ path.err \/ r.err THEN [err |-> TRUE, data |-> EmptyBytes]
  ELSE [err |-> FALSE,
        data |-> JSONBlob(IF SetKeeps(jsonBody) THEN jsonBody.form ELSE "lib", r.doc)]

sjsonSetBytes(jsonBody, key, value) ==
  SetAnswer(jsonBody, key, parsePath(key),
            appendRawPaths(IF SetKeeps(jsonBody) THEN jsonBody.doc ELSE Leaf(Null),
                           parsePath(key).parts, 1, jsonValue(value)))

\* The members of an object as its text has them: of two members of one
\* name each is there.
Members(doc) == IF IsScalarDoc(doc) THEN {} ELSE {p[1] : p \in DOMAIN doc}

\* json.Unmarshal into map[string]interface{}: the top-level keys. The map
\* holds a name that the text has twice once, with the value of the last of
\* its members. The text null decodes to no keys.
TopKeys(doc) == {MemberName(key) : key \in Members(doc)}

UnmarshalMapFails(data) ==
  \/ data.syntax # "json"
  \/ (IsScalarDoc(data.doc) /\ data.doc # Leaf(Null))
  \/ IsArrayDoc(data.doc)

RECURSIVE ApplyKeys(_, _, _, _)
\* The loop after the set of key i has answered r: an error ends it.
ApplyRest(descriptor, order, i, r) ==
  IF r.err THEN r ELSE ApplyKeys(descriptor, order, i + 1, r.data)

ApplyKeys(descriptor, order, i, jsonBody) ==
  IF i > Len(order) THEN [err |-> FALSE, data |-> jsonBody]
  ELSE ApplyRest(descriptor, order, i,
                 sjsonSetBytes(jsonBody, order[i], SubDoc(descriptor, <<order[i]>>)))

\* dotSeparatedPathToJSON, with `order` the order in which the range over the
\* decoded patch visits its keys.
dotSeparatedPathToJSON(dotSeparatedPatch, jsonBody, order) ==
  IF UnmarshalMapFails(dotSeparatedPatch) THEN [err |-> TRUE, data |-> EmptyBytes]
  ELSE ApplyKeys(LastMembers(dotSeparatedPatch.doc), order, 1, jsonBody)

(***************************************************************************)
(* Metadata envelopes                                                      *)
(*                                                                         *)
(* A struct value is the sequence of its fields in declaration order. A    *)
(* field is [name, json, kind, s, m, sub]: its Go name, the name           *)
(* encoding/json matches it by (the tag, else the Go name), its kind, and  *)
(* its value: s for a string, s (decimal text) for an int, m for a         *)
(* map[string]string, sub for a nested struct.                             *)
(***************************************************************************)
invalidString == "?invalid"

\* 0xBADACAFE, in decimal text.
invalidInt == "3134900990"

NoMap == [x \in {} |-> ""]

StringField(name, json, v) ==
  [name |-> name, json |-> json, kind |-> "string", s |-> v, m |-> NoMap, sub |-> <<>>]

IntField(name, json, v) ==
  [name |-> name, json |-> json, kind |-> "int", s |-> v, m |-> NoMap, sub |-> <<>>]

MapField(name, json, v) ==
  [name |-> name, json |-> json, kind |-> "map", s |-> "", m |-> v, sub |-> <<>>]

StructField(name, json, v) ==
  [name |-> name, json |-> json, kind |-> "struct", s |-> "", m |-> NoMap, sub |-> v]

runMetadataEnvelope(name, uid, iteration, project, labels, state, lasttime, starttime) ==
  << StructField("Metadata", "Metadata",
       << StringField("Name", "Name", name),
          StringField("UID", "UID", uid),
          IntField("Iteration", "Iteration", iteration),
          StringField("Project", "Project", project),
          MapField("Labels", "Labels", labels) >>),
     StructField("Status", "Status",
       << StringField("State", "State", state),
          StringField("LastTime", "last_update", lasttime),
          StringField("StartTime", "start_time", starttime) >>) >>

\* var updateMetadata = runMetadataEnvelope{}
runMetadataEnvelopeZero == runMetadataEnvelope("", "", "0", "", NoMap, "", "", "")

\* (*runMetadataEnvelope).makeInvalid: Status.State is not assigned.
runMakeInvalid(r) ==
  runMetadataEnvelope(invalidString, invalidString, invalidInt, invalidString, NoMap,
                      r[2].sub[1].s, invalidString, invalidString)

artifactMetadataEnvelope(name, labels) ==
  << StringField("Name", "key", name), MapField("Labels", "Labels", labels) >>

artifactMetadataEnvelopeZero == artifactMetadataEnvelope("", NoMap)

\* (*artifactMetadataEnvelope).makeInvalid
artifactMakeInvalid(r) == artifactMetadataEnvelope(invalidString, NoMap)

(***************************************************************************)
(* json.Unmarshal into an envelope                                         *)
(*                                                                         *)
(* A document of the model does not say in which order the members of an   *)
(* object are written. Where the order matters (two members of one name,   *)
(* or of names that differ in case only, match the same field and are      *)
(* decoded one after the other) it is given by `members`: a sequence of    *)
(* the paths of such members, earlier in the sequence meaning earlier in   *)
(* the text.                                                               *)
(***************************************************************************)
\* The keys of the object that encoding/json matches with a field (an exact
\* match or a case-insensitive one).
MatchingKeys(doc, json) ==
  {key \in Members(doc) : ToLower(MemberName(key)) = ToLower(json)}

\* The paths of the members that share their object with another member of
\* their name or of a name that differs from theirs in case only.
DuplicatePaths(doc) ==
  {path \in UNION {{SubSeq(p, 1, i) : i \in 1 .. Len(p)} : p \in DOMAIN doc} :
     \E q \in DOMAIN doc :
        /\ Len(q) >= Len(path)
        /\ SubSeq(q, 1, Len(path) - 1) = SubSeq(path, 1, Len(path) - 1)
        /\ q[Len(path)] # path[Len(path)]
        /\ ToLower(MemberName(q[Len(path)])) = ToLower(MemberName(path[Len(path)]))}

\* Of two members of one object and one name, p is the one the text has
\* first: its key has more tabs in front.
WrittenBefore(p, q) ==
  /\ Len(p) = Len(q)
  /\ SubSeq(p, 1, Len(p) - 1) = SubSeq(q, 1, Len(q) - 1)
  /\ MemberName(p[Len(p)]) = MemberName(q[Len(q)])
  /\ Len(p[Len(p)]) > Len(q[Len(q)])

\* The orders in which a JSON text can hold the members of the document.
MemberOrders(doc) ==
  {order \in Orders(DuplicatePaths(doc)) :
     \A i, j \in 1 .. Len(order) : WrittenBefore(order[i], order[j]) => i < j}

Rank(order, x) ==
  IF \E k \in 1 .. Len(order) : order[k] = x
  THEN CHOOSE k \in 1 .. Len(order) : order[k] = x
  ELSE 0

\* The order json.Marshal writes the members in: the keys of an object sorted
\* by their bytes.
SortedMembers(doc) ==
  CHOOSE order \in MemberOrders(doc) :
    \A i, j \in 1 .. Len(order) :
      (i < j /\ SubSeq(order[i], 1, Len(order[i]) - 1) = SubSeq(order[j], 1, Len(order[j]) - 1))
        => BytesLess(order[i][Len(order[i])], order[j][Len(order[j])])

\* The keys of the object at path `at`, in the order of the text.
InOrder(keys, at, members) ==
  CHOOSE seq \in Orders(keys) :
    \A i, j \in 1 .. Len(seq) :
      i < j => Rank(members, Append(at, seq[i])) < Rank(members, Append(at, seq[j]))

\* A map[string]string decoded from an object: every member sets the entry
\* of its name, to "" when its value is no string.
DecodeMap(v) ==
  [key \in TopKeys(v) |->
     LET e == SubDoc(v, <<key>>)
     IN  IF IsScalarDoc(e) /\ e[<<>>].k = "s" THEN e[<<>>].s ELSE ""]

DecodeMapFails(v) ==
  \E key \in Members(v) :
     LET e == SubDoc(v, <<key>>) IN ~(IsScalarDoc(e) /\ e[<<>>].k \in {"s", "z"})

RECURSIVE DecodeFields(_, _, _, _, _)
RECURSIVE DecodeMembers(_, _, _, _, _, _)

\* One value decoded into a field: [err, f]. A value of the wrong type leaves
\* the field as it was and is reported at the end; null leaves a string, an
\* int and a struct as they were and empties a map.
DecodeValue(f, v, at, members) ==
  IF v = Leaf(Null)
  THEN [err |-> FALSE, f |-> IF f.kind = "map" THEN [f EXCEPT !.m = NoMap] ELSE f]
  ELSE CASE f.kind = "struct" ->
              IF IsScalarDoc(v) \/ IsArrayDoc(v) THEN [err |-> TRUE, f |-> f]
              ELSE LET d == DecodeFields(f.sub, v, 1, at, members)
                   IN  [err |-> d.err, f |-> [f EXCEPT !.sub = d.fields]]
         [] f.kind = "string" ->
              IF IsScalarDoc(v) /\ v[<<>>].k = "s"
              THEN [err |-> FALSE, f |-> [f EXCEPT !.s = v[<<>>].s]]
              ELSE [err |-> TRUE, f |-> f]
         [] f.kind = "int" ->
              IF IsScalarDoc(v) /\ v[<<>>].k = "n" /\ IsIntText(v[<<>>].s)
              THEN [err |-> FALSE, f |-> [f EXCEPT !.s = IntText(v[<<>>].s)]]
              ELSE [err |-> TRUE, f |-> f]
         [] f.kind = "map" ->
              IF IsScalarDoc(v) \/ IsArrayDoc(v) THEN [err |-> TRUE, f |-> f]
              ELSE [err |-> DecodeMapFails(v),
                    f |-> [f EXCEPT !.m = DecodeMap(v) @@ f.m]]

\* The members keys[k..] of the object decoded into the field one after the
\* other, each on top of what the one before left.
DecodeMembers(f, doc, keys, k, at, members) ==
  IF k > Len(keys) THEN [err |-> FALSE, f |-> f]
  ELSE LET one  == DecodeValue(f, SubDoc(doc, <<keys[k]>>), Append(at, keys[k]), members)
           rest == DecodeMembers(one.f, doc, keys, k + 1, at, members)
       IN  [err |-> one.err \/ rest.err, f |-> rest.f]

\* The fields from index i on, decoded from the object `doc` found at path
\* `at`: [err, fields]. Every member that matches a field is decoded into it,
\* in the order of the text.
DecodeFields(fields, doc, i, at, members) ==
  IF i > Len(fields) THEN [err |-> FALSE, fields |-> fields]
  ELSE
    LET keys == InOrder(MatchingKeys(doc, fields[i].json), at, members)
        one  == DecodeMembers(fields[i], doc, keys, 1, at, members)
        rest == DecodeFields([fields EXCEPT ![i] = one.f], doc, i + 1, at, members)
    IN  [err |-> one.err \/ rest.err, fields |-> rest.fields]

\* json.Unmarshal(data, descriptor), the members of the text ordered as
\* `members` says. The text null decodes to nothing, without an error.
jsonUnmarshal(data, descriptor, members) ==
  IF data.syntax # "json" THEN [err |-> TRUE, fields |-> descriptor]
  ELSE IF data.doc = Leaf(Null) THEN [err |-> FALSE, fields |-> descriptor]
  ELSE IF IsScalarDoc(data.doc) \/ IsArrayDoc(data.doc)
  THEN [err |-> TRUE, fields |-> descriptor]
  ELSE DecodeFields(descriptor, data.doc, 1, <<>>, members)

(***************************************************************************)
(* Attribute encoder                                                       *)
(***************************************************************************)
RECURSIVE EncodeFrom(_, _)
EncodeFrom(name, i) ==
  IF i > Len(name) THEN ""
  ELSE (IF Char(name, i) \in LowerLetters \cup UpperLetters \cup Digits \cup {"_"}
        THEN Char(name, i) ELSE "_")
       \o EncodeFrom(name, i + 1)

\* encodeRegex.ReplaceAllString(name, "_") with encodeRegex = [^a-zA-Z0-9_]
encodeAttributeName(name) == EncodeFrom(name, 1)

\* The field of a time value that begins at position i: at least `least` and
\* at most `most` digits, [ok, value, next].
getnum(s, i, least, most) ==
  LET n == IF most > least /\ At(s, i + least) \in Digits THEN most ELSE least
  IN  IF \A j \in i .. (i + n - 1) : At(s, j) \in Digits
      THEN [ok |-> TRUE, value |-> Atoi(SubSeq(s, i, i + n - 1)), next |-> i + n]
      ELSE [ok |-> FALSE, value |-> 0, next |-> i]

RECURSIVE SkipSpaces(_, _)
SkipSpaces(s, i) == IF At(s, i) = " " THEN SkipSpaces(s, i + 1) ELSE i

isLeap(year) == year % 4 = 0 /\ (year % 100 # 0 \/ year % 400 = 0)

daysIn(month, year) ==
  IF month = 2 THEN (IF isLeap(year) THEN 29 ELSE 28)
  ELSE IF month \in {4, 6, 9, 11} THEN 30 ELSE 31

\* The six characters after the separator of the fraction, read as time.Parse
\* reads them: digits, or a '+' and digits; a '-' in front is accepted for a
\* value of zero only.
Fraction(s, i) ==
  LET signed == At(s, i) \in {"+", "-"}
      digits == IF signed THEN SubSeq(s, i + 1, i + 5) ELSE SubSeq(s, i, i + 5)
  IN  IF Len(s) < i + 5 THEN [ok |-> FALSE, value |-> 0]
      ELSE IF AllDigitsFrom(digits, 1) /\ (At(s, i) = "-" => Atoi(digits) = 0)
      THEN [ok |-> TRUE, value |-> Atoi(digits)]
      ELSE [ok |-> FALSE, value |-> 0]

\* time.Parse("2006-01-02 15:04:05.000000", s), field by field: a year of four
\* digits, a month and a day of two, one or more spaces, an hour of one or two
\* digits, a minute and a second of two, a '.' and a fraction of six,
\* and nothing after it; every field in its range, the day within the month.
TimeParts(s, year, month, day, h, hour, minute, second, frac) ==
  [ok |-> /\ year.ok /\ At(s, 5) = "-"
          /\ month.ok /\ month.value \in 1 .. 12 /\ At(s, 8) = "-"
          /\ day.ok
          /\ h > 11
          /\ hour.ok /\ hour.value < 24 /\ At(s, hour.next) = ":"
          /\ minute.ok /\ minute.value < 60 /\ At(s, minute.next) = ":"
          /\ second.ok /\ second.value < 60
          /\ At(s, second.next) = "."
          /\ Len(s) = second.next + 6
          /\ frac.ok
          /\ day.value \in 1 .. daysIn(month.value, year.value),
   year |-> year.value, month |-> month.value, day |-> day.value,
   hour |-> hour.value, minute |-> minute.value, second |-> second.value,
   micros |-> frac.value]

\* The clock of the text: each number is read from where the one before it
\* has ended.
TimeSecond(s, year, month, day, h, hour, minute, second) ==
  TimeParts(s, year, month, day, h, hour, minute, second, Fraction(s, second.next + 1))

TimeMinute(s, year, month, day, h, hour, minute) ==
  TimeSecond(s, year, month, day, h, hour, minute, getnum(s, minute.next + 1, 2, 2))

TimeHour(s, year, month, day, h, hour) ==
  TimeMinute(s, year, month, day, h, hour, getnum(s, hour.next + 1, 2, 2))

TimeClock(s, year, month, day, h) ==
  TimeHour(s, year, month, day, h, getnum(s, h, 1, 2))

TimeValue(s) ==
  TimeClock(s, getnum(s, 1, 4, 4), getnum(s, 6, 2, 2), getnum(s, 9, 2, 2), SkipSpaces(s, 11))

\* Whether time.Parse accepts s for the layout "2006-01-02 15:04:05.000000".
MatchesTimeLayout(s) == TimeValue(s).ok

\* Time.UnixNano() of a parsed time. The instants of the model lie in the
\* first two seconds of 1970-01-01, where the nanoseconds fit TLC's
\* integers; no other instant is evaluated.
UnixNano(t) ==
  IF ~t.ok THEN [err |-> TRUE, nanos |-> 0]
  ELSE CASE /\ t.year = 1970 /\ t.month = 1 /\ t.day = 1
            /\ t.hour = 0 /\ t.minute = 0 /\ t.second < 2 ->
         [err |-> FALSE, nanos |-> t.second * 1000000000 + t.micros * 1000]

\* time.Parse(layout, s) followed by UnixNano().
timeParse(s) == UnixNano(TimeValue(s))

NoAttributes == [x \in {} |-> Str("")]

\* The label keys whose attribute names are also the names of other keys.
CollidingLabels(keys) ==
  {key \in keys :
     \E other \in keys : other # key /\ encodeAttributeName(other) = encodeAttributeName(key)}

\* The order in which the range over a map of labels visits its keys, where
\* it matters: `labels` lists the keys that collide, in the order of the range.
RangeOrder(keys, labels) ==
  CHOOSE seq \in Orders(keys) :
    \A i, j \in 1 .. Len(seq) :
      (i < j /\ {seq[i], seq[j]} \subseteq CollidingLabels(keys))
        => Rank(labels, seq[i]) < Rank(labels, seq[j])

RECURSIVE RangeLabels(_, _, _, _, _)
RangeLabels(m, name, seq, k, result) ==
  IF k > Len(seq) THEN result
  ELSE RangeLabels(m, name, seq, k + 1,
                   (encodeAttributeName(name \o "." \o seq[k]) :> Str(m[seq[k]])) @@ result)

\* The attribute of a string field, t being what time.Parse has made of it.
StringAttribute(field, name, t) ==
  IF t.err THEN encodeAttributeName(name) :> Str(field.s)
  ELSE encodeAttributeName(name \o "Epoch") :> Int64(t.nanos)

\* The attributes one field named `name` contributes.
RECURSIVE metadataToV3ioAttributes(_, _, _, _)
NamedFieldAttributes(field, name, labels) ==
  CASE field.kind = "struct" ->
         metadataToV3ioAttributes(field.sub, name \o ".", NoAttributes, labels)
    [] field.kind = "int" ->
         IF field.s # invalidInt THEN encodeAttributeName(name) :> Num(field.s)
         ELSE NoAttributes
    [] field.kind = "string" ->
         IF field.s # invalidString THEN StringAttribute(field, name, timeParse(field.s))
         ELSE NoAttributes
    [] field.kind = "map" ->
         RangeLabels(field.m, name, RangeOrder(DOMAIN field.m, labels), 1, NoAttributes)

FieldAttributes(field, attributePath, labels) ==
  NamedFieldAttributes(field, attributePath \o ToLower(field.name), labels)

RECURSIVE FlattenFrom(_, _, _, _, _)
FlattenFrom(md, attributePath, result, i, labels) ==
  IF i > Len(md) THEN result
  ELSE FlattenFrom(md, attributePath,
                   FieldAttributes(md[i], attributePath, labels) @@ result, i + 1, labels)

\* metadataToV3ioAttributes(md, attributePath, result): a later assignment to
\* an attribute name replaces an earlier one. `labels` is the order in which
\* the range over a map of labels visits the keys whose names collide.
metadataToV3ioAttributes(md, attributePath, result, labels) ==
  FlattenFrom(md, attributePath, result, 1, labels)

(***************************************************************************)
(* The v3io container: a map from paths to items, an item being a map from *)
(* attribute names to values. Every call takes the failure the backend     *)
(* answers it with (0: none); a failed call changes nothing.               *)
(***************************************************************************)
dataAttributeName == "_data_"

StatusBadRequest == 400

StatusNotFound == 404

\* The statuses of the backend failures other than NotFound that are drawn.
BackendFailures == {500}

\* A call that failed with an error that carries no status code (the request
\* could not be sent, timed out): the error is not an ErrorWithStatusCode.
PlainError == -1

\* errWithStatusCode, _ := err.(v3ioerrors.ErrorWithStatusCode) followed by
\* errWithStatusCode.StatusCode(): the zero value, whose status code is 0,
\* when err is nil or is not an ErrorWithStatusCode.
StatusCode(err) == IF err = PlainError THEN 0 ELSE err

\* How the backend can answer a call: with no failure (0) or with a failure.
Failures == {0, PlainError} \cup BackendFailures

NoItem == [x \in {} |-> Str("")]

NoStore == [x \in {} |-> NoItem]

ItemOf(st, path) == IF path \in DOMAIN st THEN st[path] ELSE NoItem

\* container.UpdateItemSync: the attributes given are created or replaced, the
\* item's other attributes stay.
UpdateItemSync(st, path, attributes) == (path :> (attributes @@ ItemOf(st, path))) @@ st

\* container.DeleteObjectSync
DeleteObjectSync(st, path) == [q \in DOMAIN st \ {path} |-> st[q]]

\* The item as a GetItem or GetItems answer carries it: the attributes asked
\* for that the item has.
Project(item, attributeNames) ==
  [a \in DOMAIN item \cap attributeNames |-> item[a]]

Call(fn, path, filter, attributes, status) ==
  [fn |-> fn, path |-> path, filter |-> filter, attributes |-> attributes, status |-> status]

\* One of the calls wrote an item.
Wrote(calls) == \E i \in 1 .. Len(calls) : calls[i].fn = "UpdateItem" /\ calls[i].status = 0

\* The attribute the model keeps the body of an object under.
objectBody == "__body"

\* container.PutObjectSync: the body of the object is replaced.
PutObjectSync(st, path, body) == (path :> ((objectBody :> body) @@ ItemOf(st, path))) @@ st

(***************************************************************************)
(* Responses                                                               *)
(***************************************************************************)
NoBody == [wrap |-> "", blobs |-> <<>>]

\* The query parameters of a request.
Query(project, key, tag, labelsParams, doSort, lastParam) ==
  [project |-> project, key |-> key, tag |-> tag, labelsParams |-> labelsParams,
   doSort |-> doSort, lastParam |-> lastParam]

NoQuery == Query("", "", "", <<>>, "", "")

\* What a request ended with: the handler, the process that ran it (0 for a
\* handler that makes its backend calls in one step), the path it addressed,
\* its query parameters, the request body, the status it set (0: none set, which the server sends
\* as 200), the body it set, the backend calls it made, and whether it was
\* aborted by a run-time panic.
Response(op, proc, path, query, req, status, body, calls, panic) ==
  [op |-> op, proc |-> proc, path |-> path, query |-> query, req |-> req, status |-> status,
   body |-> body, calls |-> calls, panic |-> panic]

NoResponse == Response("", 0, "", NoQuery, EmptyBytes, 0, NoBody, <<>>, FALSE)

(***************************************************************************)
(* Store, read, delete                                                     *)
(***************************************************************************)
\* Mutant: the converted JSON is stored in place of the request body.
StoredDataConverted(data, JSONData) == JSONData

\* updateItemInput.Attributes[dataAttributeName] = data
StoredData(data, JSONData) == data

\* The keys that can be labels: the last keys of the paths of a document.
LastKeys(doc) == {MemberName(p[Len(p)]) : p \in {q \in DOMAIN doc : Len(q) >= 2}}

\* What the bytes of a request body and the run of the handler leave open:
\* the order of the members of the text whose names differ in case only, and
\* the order in which the range over the labels visits colliding keys.
StoreOrders(data) ==
  {[members |-> m, labels |-> l] :
     m \in MemberOrders(data.doc), l \in Orders(CollidingLabels(LastKeys(data.doc)))}

\* storeMetadataObject: [status, store, calls]. The JSON that YAMLToJSON
\* writes has its members sorted.
storeMetadataObject(st, path, data, attributesToAdd, descriptor, order, fail, style) ==
  LET c == convertDataToJSON(data, style)
      u == jsonUnmarshal(c.data, descriptor,
                         IF isYAML(data) THEN SortedMembers(c.data.doc) ELSE order.members)
      attributes ==
        (dataAttributeName :> StoredData(data, c.data))
          @@ metadataToV3ioAttributes(u.fields, "", attributesToAdd, order.labels)
  IN  IF c.err \/ u.err
      THEN [status |-> StatusBadRequest, store |-> st, calls |-> <<>>]
      ELSE [status |-> StatusCode(fail),
            store  |-> IF fail = 0 THEN UpdateItemSync(st, path, attributes) ELSE st,
            calls  |-> << Call("UpdateItem", path, "", attributes, fail) >>]

RunPath(project, uid) == "/run/" \o project \o "/" \o uid

\* What container.GetItemSync answers: the failure drawn, NotFound for a path
\* that holds no item, else no failure.
GetItemError(st, path, fail) ==
  IF fail # 0 THEN fail ELSE IF path \notin DOMAIN st THEN StatusNotFound ELSE 0

\* readMetadataObject: [status, body, calls, panic]. GetItemSync returns a nil
\* response with its error, so after the status was set lines 430-431 call
\* Body() on nil: a nil pointer dereference.
readMetadataObject(st, path, fail) ==
  LET err == GetItemError(st, path, fail)
  IN  IF err # 0
      THEN [status |-> StatusCode(err), body |-> NoBody,
            calls |-> << Call("GetItem", path, "", NoItem, err) >>, panic |-> TRUE]
      ELSE [status |-> 0,
            body |-> [wrap |-> "data",
                      blobs |-> << Project(st[path], {dataAttributeName})[dataAttributeName] >>],
            calls |-> << Call("GetItem", path, "", NoItem, 0) >>, panic |-> FALSE]

(***************************************************************************)
(* Update: the request reads the stored blob (lines 343-382) and later     *)
(* writes the merged one (lines 383-418). Requests run concurrently, one   *)
(* per process, so other requests can act between the two backend calls.   *)
(***************************************************************************)
Procs == {1, 2}

\* A cursor over the items below a prefix that satisfy a filter: the items
\* fetched so far, the paths the scan of the backend has passed (behind) and
\* the paths it has seen and not yet yielded (ahead), whether the backend has
\* said that there is more, and the pages fetched.
NoCursor ==
  [prefix |-> "", filter |-> "", attributeNames |-> {}, items |-> <<>>,
   behind |-> {}, ahead |-> {}, more |-> FALSE, pages |-> 0]

\* What a process keeps of a request between its backend calls. pc: "idle",
\* "read" (an update between its read and its write), "done" (an update that
\* has written), "stored" (a store of an artifact between its two writes),
\* "cursor" (a listing or delete by query that fetches pages), "delete" (a
\* delete by query that deletes the items one by one).
IdleUpdate ==
  [pc |-> "idle", op |-> "", path |-> "", patch |-> EmptyBytes, updateMetadata |-> <<>>,
   oldBody |-> EmptyBytes, readAt |-> 0, writeAt |-> 0, status |-> 0, wrote |-> FALSE,
   query |-> NoQuery, members |-> <<>>, calls |-> <<>>, cursor |-> NoCursor,
   todo |-> <<>>, allErrors |-> 0]

\* The process runs no request.
Free(p) == upd[p].pc \in {"idle", "done"}

\* The orders in which a range over the decoded patch can visit its keys.
PatchOrders(data) ==
  IF UnmarshalMapFails(data) THEN {<<>>} ELSE Orders(TopKeys(data.doc))

\* What the first half of an update leaves open: the order of the range over
\* the patch, and the order of the members that sjson wrote whose names differ
\* in case only.
ReadOrders(body, style) ==
  LET c == convertDataToJSON(body, style)
  IN  UNION {{[keys |-> keys, members |-> m] :
                m \in MemberOrders(dotSeparatedPathToJSON(c.data, EmptyBytes, keys).data.doc)} :
             keys \in PatchOrders(c.data)}

\* What the second half leaves open: the order of the second range over the
\* patch, and the order of the range over the labels for colliding keys.
WriteOrders(u) ==
  IF u.pc # "read" THEN {}
  ELSE
  {[keys |-> keys, labels |-> l] :
     keys \in PatchOrders(u.patch),
     l \in Orders(CollidingLabels(DOMAIN u.updateMetadata[1].sub[5].m))}

\* Lines 343-382: [status, done, update, calls, panic]; done says the request
\* ended. After a failed GetItemSync lines 376-377 call Body() on the nil
\* response the call returned: a nil pointer dereference.
updateRunReadPatch(st, path, c, und, members, fail, now) ==
  LET updateMetadata ==
        jsonUnmarshal(und.data, runMakeInvalid(runMetadataEnvelopeZero), members).fields
      err == GetItemError(st, path, fail)
  IN  IF c.err \/ und.err
      THEN [status |-> StatusBadRequest, done |-> TRUE, update |-> IdleUpdate, calls |-> <<>>,
            panic |-> FALSE]
      ELSE IF err # 0
      THEN [status |-> StatusCode(err), done |-> TRUE, update |-> IdleUpdate,
            calls |-> << Call("GetItem", path, "", NoItem, err) >>, panic |-> TRUE]
      ELSE [status |-> 0, done |-> FALSE,
            update |-> [IdleUpdate EXCEPT
                          !.pc = "read", !.op = "updateRun", !.path = path, !.patch = c.data,
                          !.updateMetadata = updateMetadata,
                          !.oldBody = Project(st[path], {dataAttributeName})[dataAttributeName],
                          !.readAt = now],
            calls |-> << Call("GetItem", path, "", NoItem, 0) >>, panic |-> FALSE]

updateRunRead(st, path, body, order, fail, now, style) ==
  updateRunReadPatch(st, path, convertDataToJSON(body, style),
                     dotSeparatedPathToJSON(convertDataToJSON(body, style).data, EmptyBytes,
                                            order.keys),
                     order.members, fail, now)

\* Lines 401-411: the new blob in the encoding isYAML finds for the old one.
NewBody(oldBody, newJSONBody, style) ==
  IF isYAML(oldBody) THEN JSONToYAML(newJSONBody, style) ELSE [err |-> FALSE, data |-> newJSONBody]

\* Mutant: the merge starts from the blob stored at the time of the write.
MergeBaseCurrent(st, u) == Project(st[u.path], {dataAttributeName})[dataAttributeName]

\* The blob the patch is merged into: the one read at line 381.
MergeBase(st, u) == u.oldBody

\* Lines 383-418: [status, store, calls]
updateRunWriteMerged(st, u, old, new, labels, fail, style) ==
  LET nb == NewBody(MergeBase(st, u), new.data, style)
      attributes ==
        (dataAttributeName :> nb.data)
          @@ metadataToV3ioAttributes(u.updateMetadata, "", NoAttributes, labels)
  IN  IF old.err \/ new.err \/ nb.err
      THEN [status |-> StatusBadRequest, store |-> st, calls |-> <<>>]
      ELSE [status |-> StatusCode(fail),
            store  |-> IF fail = 0 THEN UpdateItemSync(st, u.path, attributes) ELSE st,
            calls  |-> << Call("UpdateItem", u.path, "", attributes, fail) >>]

updateRunWrite(st, u, order, fail, style) ==
  updateRunWriteMerged(st, u, convertDataToJSON(MergeBase(st, u), style),
                       dotSeparatedPathToJSON(u.patch, convertDataToJSON(MergeBase(st, u), style).data,
                                              order.keys),
                       order.labels, fail, style)

\* deleteRunHandler, deleteArtifactHandler: [status, store, calls]. The
\* backend may answer the delete of a missing path with NotFound.
deleteObject(st, path, fail) ==
  [status |-> StatusCode(fail),
   store  |-> IF fail = 0 THEN DeleteObjectSync(st, path) ELSE st,
   calls  |-> << Call("DeleteObject", path, "", NoItem, fail) >>]

DeleteFailures(st, path) ==
  Failures \cup (IF path \in DOMAIN st THEN {} ELSE {StatusNotFound})

(***************************************************************************)
(* Inputs of the run handlers                                              *)
(***************************************************************************)
\* The requests other than reads and listings that one behaviour makes.
MaxOps == 2

Project1 == "p"

Uids == {"u1"}

T05 == "1970-01-01 00:00:00.000005"

T10 == "1970-01-01 00:00:00.000010"

T20 == "1970-01-01 00:00:00.000020"

\* A run with every envelope field set.
DocFull ==
  <<"metadata", "name">> :> Str("train") @@
  <<"metadata", "uid">> :> Str("u1") @@
  <<"metadata", "iteration">> :> Num("0") @@
  <<"metadata", "project">> :> Str("p") @@
  <<"metadata", "labels", "a">> :> Str("x") @@
  <<"status", "state">> :> Str("running") @@
  <<"status", "last_update">> :> Str(T10) @@
  <<"status", "start_time">> :> Str(T05) @@
  <<"spec", "cmd">> :> Str("go")

\* A run with an empty name, no labels, no state and no times.
DocBare ==
  <<"metadata", "name">> :> Str("") @@
  <<"metadata", "iteration">> :> Num("0") @@
  <<"spec", "cmd">> :> Str("go")

\* A name of the wrong type.
DocBadType == <<"metadata", "name">> :> Num("5")

\* A run with two members whose names differ in case only, two labels whose
\* attribute names are the same, a time with a one-digit hour and a time on
\* a day that its month does not have.
DocOdd ==
  <<"metadata", "name">> :> Str("first") @@
  <<"Metadata", "name">> :> Str("second") @@
  <<"metadata", "labels", "a.b">> :> Str("1") @@
  <<"metadata", "labels", "a_b">> :> Str("2") @@
  <<"status", "last_update">> :> Str("1970-01-01 0:00:00.000005") @@
  <<"status", "start_time">> :> Str("1970-02-30 00:00:00.000000")

\* An iteration that no int64 holds.
DocBadIteration == <<"metadata", "iteration">> :> Num("99999999999999999999")

RunBodies ==
  { JSONBlob("client", DocFull), YAMLBlob(TRUE, "client", DocFull),
    JSONBlob("client", DocBare), YAMLBlob(TRUE, "client", DocBare),
    JSONBlob("client", DocOdd), JSONBlob("client", DocBadIteration),
    JSONBlob("client", DocBadType), BadBlob(TRUE), BadBlob(FALSE) }

PatchState == <<"status.state">> :> Str("completed")

PatchLabel == <<"metadata.labels.b">> :> Str("y")

PatchTimeAndCmd ==
  <<"status.last_update">> :> Str(T20) @@ <<"spec.cmd">> :> Str("stop")

\* A patch that is a JSON object but not a flat one: {"status": {"state": "failed"}}
PatchNested == <<"status", "state">> :> Str("failed")

\* A key with a wildcard character, and a key with a component of digits.
PatchWildcard == <<"status.*">> :> Str("x")

PatchIndex == <<"metadata.labels.0">> :> Str("y")

PatchBodies ==
  { JSONBlob("client", PatchState), JSONBlob("client", PatchLabel),
    JSONBlob("client", PatchTimeAndCmd), YAMLBlob(TRUE, "client", PatchState),
    JSONBlob("client", PatchNested), JSONBlob("client", PatchWildcard),
    JSONBlob("client", PatchIndex),
    JSONBlob("client", Leaf(Num("5"))), BadBlob(FALSE) }

(***************************************************************************)
(* The run handlers as actions                                             *)
(***************************************************************************)
Init ==
  /\ floatStyles = FloatStyles
  /\ store = NoStore
  /\ upd = [p \in Procs |-> IdleUpdate]
  /\ last = NoResponse
  /\ clock = 0

\* clock counts the requests' steps that reach the backend's store.
Tick == clock' = clock + 1 /\ UNCHANGED floatStyles

\* The step of a handler whose YAML parser reads the text under the style.
TickRead(data, style) == clock' = clock + 1 /\ floatStyles' = Learned(floatStyles, data, style)

WithinOps == clock < MaxOps

storeRunHandler(uid, body, order, fail, style) ==
  LET path == RunPath(Project1, uid)
      r == storeMetadataObject(store, path, body, NoAttributes,
                               runMakeInvalid(runMetadataEnvelopeZero), order, fail, style)
  IN  /\ TickRead(body, style)
      /\ store' = r.store
      /\ last' = Response("storeRun", 0, path, NoQuery, body, r.status, NoBody, r.calls, FALSE)
      /\ UNCHANGED upd

updateRunHandlerRead(p, uid, body, order, fail, style) ==
  LET path == RunPath(Project1, uid)
      r == updateRunRead(store, path, body, order, fail, clock + 1, style)
  IN  /\ TickRead(body, style)
      /\ Free(p)
      /\ upd' = [upd EXCEPT ![p] = r.update]
      /\ last' = IF r.done
                 THEN Response("updateRun", p, path, NoQuery, body, r.status, NoBody, r.calls,
                               r.panic)
                 ELSE NoResponse
      /\ UNCHANGED store

updateRunHandlerWrite(p, order, fail, style) ==
  LET u == upd[p]
      r == updateRunWrite(store, u, order, fail, style)
  IN  /\ TickRead(MergeBase(store, u), style)
      /\ u.pc = "read"
      /\ store' = r.store
      /\ upd' = [upd EXCEPT ![p] = [u EXCEPT !.pc = "done", !.writeAt = clock + 1,
                                              !.status = r.status,
                                              !.wrote = Wrote(r.calls)]]
      /\ last' = Response("updateRun", p, u.path, NoQuery, u.patch, r.status, NoBody,
                          << Call("GetItem", u.path, "", NoItem, 0) >> \o r.calls, FALSE)

readRunHandler(uid, fail) ==
  LET path == RunPath(Project1, uid)
      r == readMetadataObject(store, path, fail)
  IN  /\ last' = Response("readRun", 0, path, NoQuery, EmptyBytes, r.status, r.body, r.calls,
                          r.panic)
      /\ UNCHANGED <<store, upd, clock, floatStyles>>

deleteRunHandler(uid, fail) ==
  LET path == RunPath(Project1, uid)
      r == deleteObject(store, path, fail)
  IN  /\ Tick
      /\ store' = r.store
      /\ last' = Response("deleteRun", 0, path, NoQuery, EmptyBytes, r.status, NoBody, r.calls, FALSE)
      /\ UNCHANGED upd

LogPath(project, uid) == "/log/" \o project \o "-" \o uid

\* storeLogHandler: the body is put as the object /log/<project>-<uid>.
storeLogHandler(uid, body, fail) ==
  LET path == LogPath(Project1, uid)
  IN  /\ Tick
      /\ store' = IF fail = 0 THEN PutObjectSync(store, path, body) ELSE store
      /\ last' = Response("storeLog", 0, path, NoQuery, body, StatusCode(fail), NoBody,
                          << Call("PutObject", path, "", NoItem, fail) >>, FALSE)
      /\ UNCHANGED upd

\* getLogHandler: the status is set from the error, then Body() is called on
\* the response, which is nil when the call failed.
getLogHandler(uid, fail) ==
  LET path == LogPath(Project1, uid)
      err == GetItemError(store, path, fail)
  IN  /\ last' = Response("getLog", 0, path, NoQuery, EmptyBytes, StatusCode(err),
                          IF err = 0
                          THEN [wrap |-> "", blobs |-> << store[path][objectBody] >>]
                          ELSE NoBody,
                          << Call("GetObject", path, "", NoItem, err) >>, err # 0)
      /\ UNCHANGED <<store, upd, clock, floatStyles>>

LogBodies == { BadBlob(FALSE) }

Next ==
  \/ /\ WithinOps
     /\ \E uid \in Uids, body \in RunBodies, fail \in Failures :
           \E order \in StoreOrders(body), style \in Readers(floatStyles, body) :
              storeRunHandler(uid, body, order, fail, style)
  \/ /\ WithinOps
     /\ \E p \in Procs, uid \in Uids, body \in PatchBodies, fail \in Failures :
           \E style \in Readers(floatStyles, body) :
              \E order \in ReadOrders(body, style) :
                 updateRunHandlerRead(p, uid, body, order, fail, style)
  \/ \E p \in Procs, fail \in Failures :
        \E order \in WriteOrders(upd[p]), style \in Readers(floatStyles, upd[p].oldBody) :
           updateRunHandlerWrite(p, order, fail, style)
  \/ \E uid \in Uids, fail \in Failures : readRunHandler(uid, fail)
  \/ /\ WithinOps
     /\ \E uid \in Uids : \E fail \in DeleteFailures(store, RunPath(Project1, uid)) :
           deleteRunHandler(uid, fail)
  \/ /\ WithinOps
     /\ \E uid \in Uids, body \in LogBodies, fail \in Failures :
           storeLogHandler(uid, body, fail)
  \/ \E uid \in Uids, fail \in Failures : getLogHandler(uid, fail)

Spec == Init /\ [][Next]_vars

(***************************************************************************)
(* Claims about the run handlers (specification Spec)                      *)
(***************************************************************************)
\* The request ended normally, set no error status, and none of its backend
\* calls failed.
Succeeded(r) ==
  /\ r.status = 0 /\ ~r.panic
  /\ \A i \in 1 .. Len(r.calls) : r.calls[i].status = 0

IndexAttributes(item) == [a \in DOMAIN item \ {dataAttributeName} |-> item[a]]

\* The attribute map the encoder derives from a blob, whatever its encoding.
BlobAttributes(data, order, style) ==
  LET c == convertDataToJSON(data, style)
  IN  metadataToV3ioAttributes(
        jsonUnmarshal(c.data, runMakeInvalid(runMetadataEnvelopeZero),
                      IF isYAML(data) THEN SortedMembers(c.data.doc) ELSE order.members).fields,
        "", NoAttributes, order.labels)

\* C4: at every stored run path the index attributes are exactly the
\* attributes derived from the blob stored there.
C4_IndexNeverDrifts ==
  \A path \in {q \in DOMAIN store : HasPrefix(q, "/run/")} :
     \A style \in floatStyles :
        \E order \in StoreOrders(store[path][dataAttributeName]) :
           IndexAttributes(store[path])
             = BlobAttributes(store[path][dataAttributeName], order, style)

\* C5: a successful update leaves a blob that isYAML classifies as it
\* classified the blob the update read.
C5_UpdateKeepsEncoding ==
  [][ \A p \in Procs :
        (upd[p].pc = "read" /\ upd'[p].pc = "done" /\ upd'[p].status = 0)
        => isYAML(store'[upd[p].path][dataAttributeName]) = isYAML(upd[p].oldBody) ]_vars

\* The attribute each scalar field of the run envelope is indexed under.
RunFieldAttribute ==
  <<"metadata", "name">> :> "metadata_name" @@
  <<"metadata", "uid">> :> "metadata_uid" @@
  <<"metadata", "iteration">> :> "metadata_iteration" @@
  <<"metadata", "project">> :> "metadata_project" @@
  <<"status", "state">> :> "status_state" @@
  <<"status", "last_update">> :> "status_lasttime" @@
  <<"status", "start_time">> :> "status_starttime"

LabelKeys == {"a", "b"}

\* C10: the attributes a store writes hold an attribute for an envelope field
\* exactly if the stored document has the field.
C10_SentinelExclusion ==
  (last.op = "storeRun" /\ last.calls # <<>>) =>
     LET doc        == last.req.doc
         attributes == last.calls[1].attributes
     IN  /\ \A path \in DOMAIN RunFieldAttribute :
              (path \in DOMAIN doc) <=>
                 ( \/ RunFieldAttribute[path] \in DOMAIN attributes
                   \/ (RunFieldAttribute[path] \o "Epoch") \in DOMAIN attributes )
         /\ \A key \in LabelKeys :
              (<<"metadata", "labels", key>> \in DOMAIN doc) <=>
                 ("metadata_labels_" \o key) \in DOMAIN attributes

(***************************************************************************)
(* The merge-patch engine on its own (specification SpecMerge): old        *)
(* documents and patches are drawn from bounded sets and                   *)
(* dotSeparatedPathToJSON is applied in every order of the patch keys.     *)
(***************************************************************************)
\* The keys one patch of SpecMerge has at most.
MaxPatchKeys == 2

MergePaths == {<<"a">>, <<"b">>, <<"b", "c">>, <<"d">>}

OldValue ==
  <<"a">> :> Num("1") @@ <<"b">> :> Str("old") @@ <<"b", "c">> :> Num("2") @@
  <<"d">> :> Num("3")

PrefixFree(S) == \A p, q \in S : p # q => ~IsPrefix(p, q)

MergeOldDocs == {[p \in S |-> OldValue[p]] : S \in {T \in SUBSET MergePaths : PrefixFree(T)}}

\* The keys of the patches and their values: plain names joined by dots, a
\* key with an escaped dot (a\.b), keys with a component of digits, and a key
\* with a wildcard character.
PatchValue ==
  "a" :> Num("9") @@ "b" :> Str("new") @@ "b.c" :> Num("5") @@ "d" :> Str("x") @@
  "a\\.b" :> Num("7") @@ "d.0" :> Str("z") @@ "d.e" :> Str("w") @@ "a*" :> Num("8")

MergePatchDocs ==
  {[p \in {<<key>> : key \in K} |-> PatchValue[p[1]]] :
     K \in {L \in SUBSET DOMAIN PatchValue : Cardinality(L) <= MaxPatchKeys}}

MergeCall(old, patch, order) ==
  LET r == dotSeparatedPathToJSON(JSONBlob("client", patch), JSONBlob("client", old), order)
  IN  /\ last' = Response("merge", 0, "", NoQuery, JSONBlob("client", patch),
                          IF r.err THEN StatusBadRequest ELSE 0,
                          [wrap |-> "merge", blobs |-> << JSONBlob("client", old), r.data >>],
                          <<>>, FALSE)
      /\ UNCHANGED <<store, upd, clock, floatStyles>>

NextMerge ==
  \E old \in MergeOldDocs, patch \in MergePatchDocs :
     \E order \in Orders(TopKeys(patch)) : MergeCall(old, patch, order)

SpecMerge == Init /\ [][NextMerge]_vars

RECURSIVE DottedFrom(_, _, _, _)
DottedFrom(key, i, name, path) ==
  IF i > Len(key) THEN Append(path, name)
  ELSE IF Char(key, i) = "." THEN DottedFrom(key, i + 1, "", Append(path, name))
  ELSE DottedFrom(key, i + 1, name \o Char(key, i), path)

\* The path a key names when it is read as names joined by dots.
DottedPath(key) == DottedFrom(key, 1, "", <<>>)

Overlap(p, q) == IsPrefix(p, q) \/ IsPrefix(q, p)

\* The result has every patch value at its path and every old value whose
\* path no patch key names, lies under or lies over.
MergedRight(old, patch, new) ==
  /\ \A key \in TopKeys(patch) : SubDoc(new, DottedPath(key)) = Leaf(patch[<<key>>])
  /\ \A p \in DOMAIN old :
        (\A key \in TopKeys(patch) : ~Overlap(p, DottedPath(key)))
        => (p \in DOMAIN new /\ new[p] = old[p])

\* No key of the patch is a prefix path of another.
NonOverlapping(patch) ==
  \A j, k \in TopKeys(patch) : j # k => ~Overlap(DottedPath(j), DottedPath(k))

ExampleOld == <<"a">> :> Num("1") @@ <<"b", "c">> :> Num("2")

ExamplePatch == <<"b.c">> :> Num("5") @@ <<"d">> :> Str("x")

ExampleMerged == <<"a">> :> Num("1") @@ <<"b", "c">> :> Num("5") @@ <<"d">> :> Str("x")

\* C2: for a patch no key of which is a prefix path of another, the merge
\* succeeds, has every patch value at its path and keeps the old values
\* elsewhere; old {"a":1,"b":{"c":2}} with patch {"b.c":5,"d":"x"} gives
\* {"a":1,"b":{"c":5},"d":"x"}.
C2_MergeCorrect ==
  (last.op = "merge") =>
     LET old == last.body.blobs[1].doc
         patch == last.req.doc
     IN  /\ NonOverlapping(patch)
            => (Succeeded(last) /\ MergedRight(old, patch, last.body.blobs[2].doc))
         /\ (old = ExampleOld /\ patch = ExamplePatch)
            => last.body.blobs[2].doc = ExampleMerged

(***************************************************************************)
(* Filter expression builder                                               *)
(***************************************************************************)
RECURSIVE JoinLabels(_, _, _)
\* for _, value := range labels { ... result += value }
JoinLabels(labels, i, result) ==
  IF i > Len(labels) THEN result
  ELSE JoinLabels(labels, i + 1,
                  (IF result # "" THEN result \o " AND " ELSE result) \o labels[i])

AndClause(result, clause) == (IF result # "" THEN result \o " AND " ELSE result) \o clause

\* string(endPosixDate): the character with that code point, not the decimal
\* text. The handlers pass -1 only, so no threshold clause is ever built by
\* them; the capital letters cover the thresholds the model draws.
RuneString(v) ==
  CASE v \in 65..90 ->
    Char("ABCDEFGHIJKLMNOPQRSTUVWXYZ", v - 64)

\* buildRunFilterString; labels are the clauses in the order the range over
\* the map visits them.
buildRunFilterString(labels, name, state, endPosixDate) ==
  LET r1 == IF name # ""
            THEN AndClause("", encodeAttributeName("metadata.name") \o "== \"" \o name \o "\"")
            ELSE ""
      r2 == IF state # ""
            THEN AndClause(r1, encodeAttributeName("status.state") \o "== \"" \o state \o "\"")
            ELSE r1
      r3 == JoinLabels(labels, 1, r2)
  IN  IF endPosixDate > 0
      THEN AndClause(r3, encodeAttributeName("status.lasttimeEpoch") \o " > "
                           \o RuneString(endPosixDate))
      ELSE r3

\* Mutant: the tag clause is built for the empty tag too.
TagClauseAlways(result, tag) == AndClause(result, "ends(__name,\"" \o tag \o "\")")

\* Lines 235-240 of buildArtifactFilterString.
TagClause(result, tag) ==
  IF tag # "" THEN AndClause(result, "ends(__name,\"" \o tag \o "\")") ELSE result

\* buildArtifactFilterString
buildArtifactFilterString(labels, name, tag) ==
  LET r1 == IF name # ""
            THEN AndClause("", encodeAttributeName("name") \o "== \"" \o name \o "\"")
            ELSE ""
  IN  JoinLabels(labels, 1, TagClause(r1, tag))

(***************************************************************************)
(* The backend's query: the items below a path prefix that satisfy the     *)
(* filter. Of the filter grammar the backend model reads what the handlers *)
(* can send: a conjunction of attr== "value" and ends(__name,"suffix").    *)
(***************************************************************************)
\* The first index >= i at which sub occurs in s, 0 if there is none.
RECURSIVE IndexFrom(_, _, _)
IndexFrom(s, sub, i) ==
  IF i + Len(sub) - 1 > Len(s) THEN 0
  ELSE IF SubSeq(s, i, i + Len(sub) - 1) = sub THEN i
  ELSE IndexFrom(s, sub, i + 1)

RECURSIVE SplitAnd(_)
SplitAnd(filter) ==
  LET i == IndexFrom(filter, " AND ", 1)
  IN  IF filter = "" THEN <<>>
      ELSE IF i = 0 THEN << filter >>
      ELSE << SubSeq(filter, 1, i - 1) >> \o SplitAnd(SubSeq(filter, i + 5, Len(filter)))

ClauseHolds(item, itemName, clause) ==
  LET eq == IndexFrom(clause, "== \"", 1)
  IN  IF HasPrefix(clause, "ends(__name,\"") /\ HasSuffix(clause, "\")")
      THEN HasSuffix(itemName, SubSeq(clause, 14, Len(clause) - 2))
      ELSE /\ eq > 0
           /\ HasSuffix(clause, "\"")
           /\ SubSeq(clause, 1, eq - 1) \in DOMAIN item
           /\ SubSeq(clause, 1, eq - 1) # dataAttributeName
           /\ item[SubSeq(clause, 1, eq - 1)] = Str(SubSeq(clause, eq + 4, Len(clause) - 1))

FilterHolds(item, itemName, clauses) ==
  \A i \in 1..Len(clauses) : ClauseHolds(item, itemName, clauses[i])

ItemName(prefix, path) == SubSeq(path, Len(prefix) + 1, Len(path))

\* The paths a query of the prefix with the filter yields.
QueryPaths(st, prefix, filter) ==
  LET clauses == SplitAnd(filter)
  IN  {path \in DOMAIN st :
         HasPrefix(path, prefix) /\ FilterHolds(st[path], ItemName(prefix, path), clauses)}

\* How the backend can answer the opening of a cursor: NotFound is the answer
\* for a prefix nothing was ever written under.
CursorFailures(st, prefix) ==
  Failures \cup (IF \E path \in DOMAIN st : HasPrefix(path, prefix) THEN {} ELSE {StatusNotFound})

\* The item a cursor yields: __name and the attributes asked for.
CursorItem(st, prefix, path, attributeNames) ==
  Project(("__name" :> Str(ItemName(prefix, path))) @@ st[path], attributeNames)

(***************************************************************************)
(* Cursors. v3io.NewItemsCursor sends the first GetItems request; AllSync  *)
(* takes the items of the page at hand and sends a further request for     *)
(* every further page, as long as the backend says that there are more     *)
(* items. How many items a page holds is the backend's choice. Between two *)
(* requests other requests can change the items.                           *)
(***************************************************************************)
\* The pages one cursor fetches at most.
MaxPages == 2

NewCursor(prefix, filter, attributeNames) ==
  [NoCursor EXCEPT !.prefix = prefix, !.filter = filter,
                   !.attributeNames = attributeNames, !.more = TRUE]

\* The paths that satisfy the query now and that the scan has not passed.
Found(st, c) == QueryPaths(st, c.prefix, c.filter) \ c.behind

NoPage == [returned |-> <<>>, deferred |-> {}, more |-> FALSE]

\* The answers of the backend to a GetItems request of the cursor: the paths
\* of the page in the order of the page, the paths left for later pages, and
\* whether there is more. The first page yields or leaves for later every
\* path found; a later page does so for the paths left to it, and may yield,
\* leave or pass over a path that has come to satisfy the query since.
PageAnswers(st, c) ==
  LET found == Found(st, c)
      due   == IF c.pages = 0 THEN found ELSE found \cap c.ahead
      final == c.pages + 1 >= MaxPages
  IN  UNION {UNION {{[returned |-> order, deferred |-> D, more |-> more] :
                       order \in Orders(R),
                       more \in IF final THEN {FALSE}
                                ELSE IF D # {} THEN {TRUE} ELSE BOOLEAN} :
                    D \in {E \in SUBSET (found \ R) :
                             due \subseteq (R \cup E) /\ (final => E = {})}} :
             R \in SUBSET found}

\* The cursor after the backend answered its request with the page.
setResponse(c, st, page) ==
  [c EXCEPT !.items = @ \o [i \in 1 .. Len(page.returned) |->
                              CursorItem(st, c.prefix, page.returned[i], c.attributeNames)],
            !.behind = IF page.more THEN c.behind \cup (Found(st, c) \ page.deferred) ELSE {},
            !.ahead = IF page.more THEN page.deferred ELSE {},
            !.more = page.more,
            !.pages = @ + 1]

(***************************************************************************)
(* Listing engine                                                          *)
(***************************************************************************)
\* strconv.Atoi: [err, value], the value in decimal text. The value is 0 when
\* the text is not an integer, and the nearest int when the integer does not
\* fit the 64 bits of an int.
strconvAtoi(s) ==
  LET signed   == At(s, 1) \in {"+", "-"}
      negative == At(s, 1) = "-"
      digits   == IF signed THEN SubSeq(s, 2, Len(s)) ELSE s
  IN  IF Len(digits) = 0 \/ ~AllDigitsFrom(digits, 1) THEN [err |-> TRUE, value |-> "0"]
      ELSE IF ~FitsInt64(negative, digits)
      THEN [err |-> TRUE,
            value |-> IF negative THEN "-" \o MinInt64Digits ELSE MaxInt64Text]
      ELSE [err |-> FALSE,
            value |-> IF negative /\ StripZeros(digits) # "0"
                      THEN "-" \o StripZeros(digits) ELSE StripZeros(digits)]

\* last = 30 // Same as in python code
DefaultLast == 30

\* The limit a listing would have if the default were taken when the
\* parameter does not parse, and the parameter's value when it does.
LastOnParseError(lastParam) ==
  IF strconvAtoi(lastParam).err THEN NatText(DefaultLast) ELSE strconvAtoi(lastParam).value

\* Lines 468-471: the default replaces the limit when the parameter parses.
Last(lastParam) ==
  IF ~strconvAtoi(lastParam).err THEN NatText(DefaultLast) ELSE strconvAtoi(lastParam).value

IsNegativeInt(text) == HasPrefix(text, "-")

\* n > the int of the text, for a natural number n.
Exceeds(n, text) == IsNegativeInt(text) \/ ~DigitsLeq(NatText(n), text)

\* Item.GetFieldInt
GetFieldInt(item, name) ==
  IF name \in DOMAIN item /\ item[name].k = "i"
  THEN [err |-> FALSE, value |-> item[name].n]
  ELSE [err |-> TRUE, value |-> 0]

NoKeyMap == [x \in {} |-> EmptyBytes]

RECURSIVE CollectKeys(_, _, _, _, _)
\* Lines 517-527: [keys, resultMapByTime]
CollectKeys(cursorItems, i, keys, resultMapByTime, dummyTimestampEpoch) ==
  IF i > Len(cursorItems) THEN [keys |-> keys, resultMapByTime |-> resultMapByTime]
  ELSE LET f   == GetFieldInt(cursorItems[i], encodeAttributeName("status.lasttimeEpoch"))
           key == IF f.err THEN dummyTimestampEpoch ELSE f.value
       IN  CollectKeys(cursorItems, i + 1, Append(keys, key),
                       (key :> cursorItems[i][dataAttributeName]) @@ resultMapByTime,
                       IF f.err THEN dummyTimestampEpoch + 1 ELSE dummyTimestampEpoch)

RECURSIVE InsertDesc(_, _)
InsertDesc(sorted, key) ==
  IF sorted = <<>> THEN << key >>
  ELSE IF key > Head(sorted) THEN << key >> \o sorted
  ELSE << Head(sorted) >> \o InsertDesc(Tail(sorted), key)

RECURSIVE SortDesc(_)
\* sort.Slice(keys, func(i, j int) bool { return keys[i] > keys[j] })
SortDesc(keys) ==
  IF keys = <<>> THEN <<>> ELSE InsertDesc(SortDesc(Tail(keys)), Head(keys))

Min(a, b) == IF a < b THEN a ELSE b

\* The attributes listRunsHandler asks the query for (line 493).
ListRunsAttributeNames ==
  {"__name", dataAttributeName, encodeAttributeName("status.starttimeEpoch")}

\* Lines 514-545 of listRunsHandler: [body, panic]. A negative limit makes
\* keys[:numOfKeysLeftToAdd] a slice of negative length, which panics.
listRunsAnswer(cursorItems, doSort, lastN) ==
  LET c    == CollectKeys(cursorItems, 1, <<>>, NoKeyMap, 0)
      keys == IF doSort = "true" \/ lastN # "0" THEN SortDesc(c.keys) ELSE c.keys
      cut  == lastN # "0" /\ Exceeds(Len(keys), lastN)
      numOfKeys == IF cut THEN Atoi(lastN) ELSE Len(keys)
  IN  IF cut /\ IsNegativeInt(lastN) THEN [body |-> NoBody, panic |-> TRUE]
      ELSE [body |-> [wrap |-> "runs",
                      blobs |-> [i \in 1 .. numOfKeys |-> c.resultMapByTime[keys[i]]]],
            panic |-> FALSE]

\* Lines 716-727 of listArtifactsHandler
listArtifactsAnswer(cursorItems) ==
  [wrap |-> "artifacts",
   blobs |-> [i \in 1 .. Len(cursorItems) |-> cursorItems[i][dataAttributeName]]]

\* Mutant: a failed cursor is reported whatever its status.
CursorErrorSurfaced(wrap, err) == [status |-> err, body |-> NoBody]

\* Lines 498-510 and 694-706: NotFound is answered with an empty list.
CursorError(wrap, err) ==
  IF err = StatusNotFound
  THEN [status |-> 0, body |-> [wrap |-> wrap, blobs |-> <<>>]]
  ELSE [status |-> err, body |-> NoBody]

\* Lines 668-674 and 737-743: the tag the listing filters with.
ListTag(tag) == IF tag = "" THEN "latest" ELSE IF tag = "*" THEN "" ELSE tag

\* Mutant: the first error met is the one kept.
KeepFirstError(allErrors, err) == IF allErrors # 0 THEN allErrors ELSE err

\* if err != nil { allErrors = err }
KeepError(allErrors, err) == IF err # 0 THEN err ELSE allErrors

(***************************************************************************)
(* The listings and the deletes by query as actions: one step for every    *)
(* request that a handler sends to the backend.                            *)
(***************************************************************************)
\* The request of process p ends with the response.
Ends(p, response) ==
  /\ upd' = [upd EXCEPT ![p] = IdleUpdate]
  /\ last' = response

\* The request of process p goes on from u: the step sends no response.
GoesOn(p, u) ==
  /\ upd' = [upd EXCEPT ![p] = u]
  /\ last' = NoResponse

Finished(p, u, status, body, calls, panic) ==
  Ends(p, Response(u.op, p, "", u.query, EmptyBytes, status, body, calls, panic))

\* What a handler does once AllSync has returned: with the items of the
\* cursor, or with nil and the error. listRunsHandler and deleteRunsHandler
\* do not look at the error.
afterAllSync(p, u, calls, items, err) ==
  LET cursorItems == IF err # 0 THEN <<>> ELSE items
      a == listRunsAnswer(cursorItems, u.query.doSort, Last(u.query.lastParam))
  IN  CASE u.op = "listRuns" -> Finished(p, u, 0, a.body, calls, a.panic)
        [] u.op = "listArtifacts" ->
             IF err # 0 THEN Finished(p, u, StatusCode(err), NoBody, calls, FALSE)
             ELSE Finished(p, u, 0, listArtifactsAnswer(cursorItems), calls, FALSE)
        [] u.op \in {"deleteRuns", "deleteArtifacts"} ->
             IF u.op = "deleteArtifacts" /\ err # 0
             THEN Finished(p, u, StatusCode(err), NoBody, calls, FALSE)
             ELSE IF cursorItems = <<>> THEN Finished(p, u, 0, NoBody, calls, FALSE)
             ELSE GoesOn(p, [u EXCEPT
                               !.pc = "delete", !.calls = calls, !.cursor = NoCursor,
                               !.todo = [i \in 1 .. Len(cursorItems) |->
                                           u.cursor.prefix \o cursorItems[i]["__name"].s]])

\* v3io.NewItemsCursor and what the handler does with its answer. An error
\* that is not an ErrorWithStatusCode fails the type assertion of lines 499,
\* 695 and 764, which panics; line 577 takes the zero value.
openCursor(p, u, fail, page) ==
  LET open == << Call("GetItems", u.cursor.prefix, u.cursor.filter, NoItem, fail) >>
      wrap == IF u.op = "listRuns" THEN "runs" ELSE "artifacts"
      c    == setResponse(u.cursor, store, page)
  IN  IF fail = 0
      THEN IF c.more THEN GoesOn(p, [u EXCEPT !.pc = "cursor", !.calls = open, !.cursor = c])
           ELSE afterAllSync(p, [u EXCEPT !.cursor = c], open, c.items, 0)
      ELSE IF u.op = "deleteRuns" THEN Finished(p, u, StatusCode(fail), NoBody, open, FALSE)
      ELSE IF fail = PlainError THEN Finished(p, u, 0, NoBody, open, TRUE)
      ELSE IF u.op = "deleteArtifacts"
      THEN Finished(p, u, IF fail = StatusNotFound THEN 0 ELSE fail, NoBody, open, FALSE)
      ELSE Finished(p, u, CursorError(wrap, fail).status, CursorError(wrap, fail).body,
                    open, FALSE)

\* The request of a handler that queries, before its first backend call;
\* readAt is the time it began at.
Querying(op, query, prefix, filter, attributeNames) ==
  [IdleUpdate EXCEPT !.op = op, !.query = query, !.readAt = clock,
                     !.cursor = NewCursor(prefix, filter, attributeNames)]

RunPrefix(project) == "/run/" \o project \o "/"

ArtifactPrefix(project) == "/artifact/" \o project \o "/"

RunListRequest(project, doSort, lastParam, labelsParams, state, name) ==
  [project |-> project, doSort |-> doSort, lastParam |-> lastParam,
   labelsParams |-> labelsParams, state |-> state, name |-> name]

\* Lines 486-489 and 563-566: the filter of a run query. labels is nil when
\* the handler gets here.
RunFilter(q) == buildRunFilterString(<<>>, q.name, q.state, -1)

ListRequest(project, tagParam, labelsParams, name) ==
  [project |-> project, tagParam |-> tagParam, labelsParams |-> labelsParams, name |-> name]

\* listRunsHandler up to the answer of NewItemsCursor.
listRunsHandler(p, q, fail, page) ==
  LET u == Querying("listRuns",
                    Query(q.project, q.name, q.state, q.labelsParams, q.doSort, q.lastParam),
                    RunPrefix(q.project), RunFilter(q),
                    ListRunsAttributeNames)
  IN  /\ Free(p)
      /\ IF q.project = "" THEN Finished(p, u, StatusBadRequest, NoBody, <<>>, FALSE)
         \* labels is a nil map: the assignment at line 483 panics.
         ELSE IF q.labelsParams # <<>> THEN Finished(p, u, 0, NoBody, <<>>, TRUE)
         ELSE openCursor(p, u, fail, page)
      /\ UNCHANGED <<store, clock, floatStyles>>

\* deleteRunsHandler up to the answer of NewItemsCursor. The labels are
\* parsed before the project is looked at.
deleteRunsHandler(p, q, fail, page) ==
  LET u == Querying("deleteRuns", Query(q.project, q.name, q.state, q.labelsParams, "", ""),
                    RunPrefix(q.project), RunFilter(q),
                    {"__name"})
  IN  /\ Free(p)
      /\ Tick
      \* labels is a nil map: the assignment at line 554 panics.
      /\ IF q.labelsParams # <<>> THEN Finished(p, u, 0, NoBody, <<>>, TRUE)
         ELSE IF q.project = "" THEN Finished(p, u, StatusBadRequest, NoBody, <<>>, FALSE)
         ELSE openCursor(p, u, fail, page)
      /\ UNCHANGED store

\* listArtifactsHandler up to the answer of NewItemsCursor.
listArtifactsHandler(p, q, fail, page) ==
  LET u == Querying("listArtifacts",
                    Query(q.project, q.name, q.tagParam, q.labelsParams, "", ""),
                    ArtifactPrefix(q.project),
                    buildArtifactFilterString(<<>>, q.name, ListTag(q.tagParam)),
                    {dataAttributeName})
  IN  /\ Free(p)
      /\ IF q.project = "" THEN Finished(p, u, StatusBadRequest, NoBody, <<>>, FALSE)
         ELSE IF q.labelsParams # <<>> THEN Finished(p, u, 0, NoBody, <<>>, TRUE)
         ELSE openCursor(p, u, fail, page)
      /\ UNCHANGED <<store, clock, floatStyles>>

\* deleteArtifactsHandler up to the answer of NewItemsCursor.
deleteArtifactsHandler(p, q, fail, page) ==
  LET u == Querying("deleteArtifacts",
                    Query(q.project, q.name, q.tagParam, q.labelsParams, "", ""),
                    ArtifactPrefix(q.project),
                    buildArtifactFilterString(<<>>, q.name, ListTag(q.tagParam)),
                    {"__name"})
  IN  /\ Free(p)
      /\ Tick
      /\ IF q.project = "" THEN Finished(p, u, StatusBadRequest, NoBody, <<>>, FALSE)
         ELSE IF q.labelsParams # <<>> THEN Finished(p, u, 0, NoBody, <<>>, TRUE)
         ELSE openCursor(p, u, fail, page)
      /\ UNCHANGED store

\* cursor.AllSync(): one request for a further page.
cursorAllSync(p, fail, page) ==
  LET u     == upd[p]
      calls == Append(u.calls, Call("GetItems", u.cursor.prefix, u.cursor.filter, NoItem, fail))
      c     == setResponse(u.cursor, store, page)
  IN  /\ u.pc = "cursor"
      /\ IF fail # 0 THEN afterAllSync(p, u, calls, <<>>, fail)
         ELSE IF c.more THEN GoesOn(p, [u EXCEPT !.calls = calls, !.cursor = c])
         ELSE afterAllSync(p, [u EXCEPT !.cursor = c], calls, c.items, 0)
      /\ UNCHANGED <<store, clock, floatStyles>>

\* Lines 584-593 and 781-790: the delete of the next item of the cursor.
deleteCursorItem(p, fail) ==
  LET u         == upd[p]
      path      == Head(u.todo)
      calls     == Append(u.calls, Call("DeleteObject", path, "", NoItem, fail))
      allErrors == KeepError(u.allErrors, fail)
  IN  /\ u.pc = "delete"
      /\ Tick
      /\ store' = IF fail = 0 THEN DeleteObjectSync(store, path) ELSE store
      /\ IF Len(u.todo) = 1
         THEN Finished(p, u, StatusCode(allErrors), NoBody, calls, FALSE)
         ELSE GoesOn(p, [u EXCEPT !.todo = Tail(@), !.calls = calls,
                                  !.allErrors = allErrors])

\* The pages the opening of the cursor of a request can be answered with.
FirstPages(project, labelsParams, fail, prefix, filter) ==
  IF project # "" /\ labelsParams = <<>> /\ fail = 0
  THEN PageAnswers(store, NewCursor(prefix, filter, {}))
  ELSE {NoPage}

RunFirstPages(q, fail) ==
  FirstPages(q.project, q.labelsParams, fail, RunPrefix(q.project), RunFilter(q))

ArtifactFirstPages(q, fail) ==
  FirstPages(q.project, q.labelsParams, fail, ArtifactPrefix(q.project),
             buildArtifactFilterString(<<>>, q.name, ListTag(q.tagParam)))

\* The pages a further request of the cursor of process p can be answered with.
NextPages(p, fail) ==
  IF upd[p].pc = "cursor" /\ fail = 0 THEN PageAnswers(store, upd[p].cursor) ELSE {NoPage}

\* The path the next delete of process p addresses.
NextDeleted(p) == IF upd[p].pc = "delete" THEN Head(upd[p].todo) ELSE ""

(***************************************************************************)
(* Artifact handlers                                                       *)
(***************************************************************************)
ArtifactPath(project, key, suffix) ==
  "/artifact/" \o project \o "/" \o key \o "." \o suffix

\* Mutant: an empty tag is used as it is.
TagAsGiven(tag) == tag

\* if tag == "" { tag = "latest" }
DefaultTag(tag) == IF tag = "" THEN "latest" ELSE tag

\* storeArtifactHandler up to the answer of the first UpdateItemSync (line
\* 617). A body that does not decode makes both calls of storeMetadataObject
\* end with 400 before they reach the backend.
storeArtifactHandler(p, uid, key, tag, body, order, fail, style) ==
  LET path  == ArtifactPath(Project1, key, uid)
      query == Query(Project1, key, tag, <<>>, "", "")
      u     == [IdleUpdate EXCEPT !.op = "storeArtifact", !.query = query]
      r     == storeMetadataObject(store, path, body, "name" :> Str(key),
                                   artifactMakeInvalid(artifactMetadataEnvelopeZero),
                                   order, fail, style)
  IN  /\ Free(p)
      /\ TickRead(body, style)
      /\ IF key = "" \/ r.calls = <<>>
         THEN /\ Ends(p, Response("storeArtifact", p, path, query, body, StatusBadRequest,
                                  NoBody, <<>>, FALSE))
              /\ UNCHANGED store
         ELSE /\ store' = r.store
              /\ GoesOn(p, [u EXCEPT !.pc = "stored", !.path = path, !.patch = body,
                                     !.members = order.members, !.calls = r.calls])

\* Line 619: the second storeMetadataObject, whose status is the one the
\* request ends with.
storeArtifactTag(p, labels, fail, style) ==
  LET u == upd[p]
      r == storeMetadataObject(store,
                               ArtifactPath(u.query.project, u.query.key,
                                            DefaultTag(u.query.tag)),
                               u.patch, "name" :> Str(u.query.key),
                               artifactMakeInvalid(artifactMetadataEnvelopeZero),
                               [members |-> u.members, labels |-> labels], fail, style)
  IN  /\ u.pc = "stored"
      /\ TickRead(u.patch, style)
      /\ store' = r.store
      /\ Ends(p, Response("storeArtifact", p, u.path, u.query, u.patch, r.status, NoBody,
                          u.calls \o r.calls, FALSE))

\* getArtifactHandler: [status, body, calls, panic]
getArtifact(st, project, key, tagParam, fail) ==
  IF key = ""
  THEN [status |-> StatusBadRequest, body |-> NoBody, calls |-> <<>>, panic |-> FALSE]
  ELSE readMetadataObject(st, ArtifactPath(project, key, DefaultTag(tagParam)), fail)

\* Mutant: the delete removes every record of the key.
deleteArtifactEveryRecord(st, project, key, tagParam, fail) ==
  IF key = ""
  THEN [status |-> StatusBadRequest, store |-> st, calls |-> <<>>]
  ELSE [status |-> StatusCode(fail),
        store  |-> IF fail = 0
                   THEN [path \in {q \in DOMAIN st :
                                     ~HasPrefix(q, "/artifact/" \o project \o "/" \o key \o ".")}
                           |-> st[path]]
                   ELSE st,
        calls  |-> << Call("DeleteObject", ArtifactPath(project, key, DefaultTag(tagParam)),
                           "", NoItem, fail) >>]

\* deleteArtifactHandler: [status, store, calls]
deleteArtifact(st, project, key, tagParam, fail) ==
  IF key = ""
  THEN [status |-> StatusBadRequest, store |-> st, calls |-> <<>>]
  ELSE deleteObject(st, ArtifactPath(project, key, DefaultTag(tagParam)), fail)

getArtifactHandler(key, tag, fail) ==
  LET r == getArtifact(store, Project1, key, tag, fail)
  IN  /\ last' = Response("getArtifact", 0, "", Query(Project1, key, tag, <<>>, "", ""),
                          EmptyBytes, r.status, r.body, r.calls, r.panic)
      /\ UNCHANGED <<store, upd, clock, floatStyles>>

deleteArtifactHandler(key, tag, fail) ==
  LET r == deleteArtifact(store, Project1, key, tag, fail)
  IN  /\ Tick
      /\ store' = r.store
      /\ last' = Response("deleteArtifact", 0, "", Query(Project1, key, tag, <<>>, "", ""),
                          EmptyBytes, r.status, NoBody, r.calls, FALSE)
      /\ UNCHANGED upd

(***************************************************************************)
(* The artifact handlers as actions (specification SpecArtifact)           *)
(***************************************************************************)
\* The store and delete requests one behaviour of SpecArtifact makes.
MaxArtifactOps == 3

ArtifactUids == {"u1"}

ArtifactTags == {"", "t1"}

DocArtifact ==
  <<"key">> :> Str("k") @@ <<"labels", "a">> :> Str("x") @@ <<"kind">> :> Str("model")

DocArtifactBare == <<"kind">> :> Str("model")

ArtifactBodies == { JSONBlob("client", DocArtifact), JSONBlob("client", DocArtifactBare) }

ArtifactRequest(key, tag, body) == [key |-> key, tag |-> tag, body |-> body]

\* The store requests: every tag with every body, one request without the key
\* parameter and one whose body does not parse.
StoreArtifactRequests ==
  {ArtifactRequest("k", tag, body) : tag \in ArtifactTags, body \in ArtifactBodies}
    \cup {ArtifactRequest("", "", JSONBlob("client", DocArtifact)),
          ArtifactRequest("k", "", BadBlob(FALSE))}

\* The get and delete requests: every tag, and one request without the key.
ArtifactRequests ==
  {ArtifactRequest("k", tag, EmptyBytes) : tag \in ArtifactTags}
    \cup {ArtifactRequest("", "", EmptyBytes)}

WithinArtifactOps == clock < MaxArtifactOps

\* The requests a listing or a delete by query is drawn from. A request
\* without the project parameter or with a label parameter ends before its
\* other parameters are used, so one request of each sort is enough.
ListTagParams == {"", "*", "t1"}

ArtifactListRequests ==
  {ListRequest(Project1, tagParam, <<>>, "") : tagParam \in ListTagParams}
    \cup {ListRequest(Project1, tagParam, <<>>, "k") : tagParam \in {"", "*"}}
    \cup {ListRequest("", "", <<>>, ""), ListRequest(Project1, "", <<"a=x">>, "")}

\* The orders in which the range over the labels of the body can run.
LabelOrders(data) == Orders(CollidingLabels(LastKeys(data.doc)))

\* The process that sends the listings and the deletes by query, and the
\* process that sends the stores.
Lister == 1

Storer == 2

\* A behaviour holds one listing or delete by query.
FirstQuery == upd[Lister].pc = "idle"

NextArtifact ==
  \/ /\ WithinArtifactOps
     /\ \E uid \in ArtifactUids, q \in StoreArtifactRequests, fail \in Failures :
           \E order \in StoreOrders(q.body), style \in Readers(floatStyles, q.body) :
              storeArtifactHandler(Storer, uid, q.key, q.tag, q.body, order, fail, style)
  \/ \E fail \in Failures :
        \E labels \in LabelOrders(upd[Storer].patch),
           style \in Readers(floatStyles, upd[Storer].patch) :
           storeArtifactTag(Storer, labels, fail, style)
  \/ \E q \in ArtifactRequests, fail \in Failures :
        getArtifactHandler(q.key, q.tag, fail)
  \/ /\ WithinArtifactOps
     /\ \E q \in ArtifactRequests :
           \E fail \in DeleteFailures(store, ArtifactPath(Project1, q.key, DefaultTag(q.tag))) :
              deleteArtifactHandler(q.key, q.tag, fail)
  \/ /\ FirstQuery
     /\ \E q \in ArtifactListRequests :
           \E fail \in CursorFailures(store, ArtifactPrefix(q.project)) :
              \E page \in ArtifactFirstPages(q, fail) :
                 listArtifactsHandler(Lister, q, fail, page)
  \/ /\ WithinArtifactOps /\ FirstQuery
     /\ \E q \in ArtifactListRequests :
           \E fail \in CursorFailures(store, ArtifactPrefix(q.project)) :
              \E page \in ArtifactFirstPages(q, fail) :
                 deleteArtifactsHandler(Lister, q, fail, page)
  \/ \E fail \in Failures :
        \E page \in NextPages(Lister, fail) : cursorAllSync(Lister, fail, page)
  \/ \E fail \in DeleteFailures(store, NextDeleted(Lister)) : deleteCursorItem(Lister, fail)

SpecArtifact == Init /\ [][NextArtifact]_vars

(***************************************************************************)
(* Claims about the artifact handlers                                      *)
(***************************************************************************)
CallPaths(r) == {r.calls[i].path : i \in 1..Len(r.calls)}

LatestPath(r) == ArtifactPath(r.query.project, r.query.key, "latest")

IsTagClause(clause) == HasPrefix(clause, "ends(__name,")

\* C8: store, get and delete of an artifact with an empty tag parameter
\* address /artifact/{project}/{key}.latest (the store also the uid path); a
\* listing or delete by query with an empty tag parameter filters with the
\* clause ends(__name,"latest"), and with the tag "*" its filter has no tag
\* clause.
C8_TagDefaulting ==
  /\ (last.op = "storeArtifact" /\ last.query.tag = "" /\ last.calls # <<>>)
       => CallPaths(last) = {last.path, LatestPath(last)}
  /\ (last.op \in {"getArtifact", "deleteArtifact"} /\ last.query.tag = ""
        /\ last.calls # <<>>)
       => CallPaths(last) = {LatestPath(last)}
  /\ (last.op \in {"listArtifacts", "deleteArtifacts"} /\ last.calls # <<>>)
       => LET clauses == SplitAnd(last.calls[1].filter)
          IN  /\ last.query.tag = ""
                   => \E i \in 1..Len(clauses) : clauses[i] = "ends(__name,\"latest\")"
              /\ last.query.tag = "*"
                   => \A i \in 1..Len(clauses) : ~IsTagClause(clauses[i])

\* An artifact stored without a tag is read back without a tag, from the
\* path that ends in .latest.
C8_Witness ==
  /\ last.op = "getArtifact" /\ last.query.tag = "" /\ Succeeded(last)
  /\ last.calls[1].path = "/artifact/p/k.latest"
  /\ last.body = [wrap |-> "data", blobs |-> << JSONBlob("client", DocArtifact) >>]
  /\ DOMAIN store = {"/artifact/p/k.latest", "/artifact/p/k.u1"}

\* C9: after a store-artifact request that reports success, the uid path and
\* the tag path both exist and hold the same blob and the same derived
\* attributes.
C9_StoredTwice ==
  (last.op = "storeArtifact" /\ last.status = 0 /\ ~last.panic) =>
     LET tagPath == ArtifactPath(last.query.project, last.query.key,
                                 DefaultTag(last.query.tag))
     IN  /\ last.path \in DOMAIN store
         /\ tagPath \in DOMAIN store
         /\ store[last.path] = store[tagPath]

(***************************************************************************)
(* Store and read of runs and artifacts (specification SpecVerbatim): the  *)
(* bodies hold numbers that the codec writes in another text than the      *)
(* client did.                                                             *)
(***************************************************************************)
\* The steps that reach the backend's store in one behaviour of SpecVerbatim.
MaxVerbatimOps == 3

\* A run with two numbers that json.Marshal and yaml.Marshal write otherwise.
DocRated ==
  DocFull @@ <<"spec", "rate">> :> Num("1.50") @@ <<"spec", "scale">> :> Num("1e21")

\* The same with an iteration that the YAML parser reads as a float64 and
\* json.Marshal writes as 1, which decodes into the int field; the decoder
\* of a JSON body refuses the text 1.0 for the field.
DocMeasured == [DocRated EXCEPT ![<<"metadata", "iteration">>] = Num("1.0")]

VerbatimRunBodies ==
  { JSONBlob("client", DocRated), JSONBlob("client", DocMeasured),
    YAMLBlob(TRUE, "client", DocMeasured), BadBlob(TRUE) }

DocArtifactSized == DocArtifact @@ <<"size">> :> Num("1.50")

VerbatimArtifactBodies ==
  { JSONBlob("client", DocArtifactSized), YAMLBlob(TRUE, "client", DocArtifactSized),
    BadBlob(FALSE) }

\* The tags of the store, get and delete requests: none, and the uid of the
\* stores, which addresses the uid path.
VerbatimTags == {"", "u1"}

WithinVerbatimOps == clock < MaxVerbatimOps

NextVerbatim ==
  \/ /\ WithinVerbatimOps
     /\ \E uid \in Uids, body \in VerbatimRunBodies, fail \in Failures :
           \E order \in StoreOrders(body), style \in Readers(floatStyles, body) :
              storeRunHandler(uid, body, order, fail, style)
  \/ \E uid \in Uids, fail \in Failures : readRunHandler(uid, fail)
  \/ /\ WithinVerbatimOps
     /\ \E uid \in Uids, fail \in Failures :
           \E style \in Readers(floatStyles, JSONBlob("client", PatchState)) :
              \E order \in ReadOrders(JSONBlob("client", PatchState), style) :
                 updateRunHandlerRead(Lister, uid, JSONBlob("client", PatchState), order, fail,
                                      style)
  \/ /\ WithinVerbatimOps
     /\ \E fail \in Failures :
           \E order \in WriteOrders(upd[Lister]),
              style \in Readers(floatStyles, upd[Lister].oldBody) :
              updateRunHandlerWrite(Lister, order, fail, style)
  \/ /\ WithinVerbatimOps
     /\ \E uid \in Uids : \E fail \in DeleteFailures(store, RunPath(Project1, uid)) :
           deleteRunHandler(uid, fail)
  \/ /\ WithinVerbatimOps
     /\ \E uid \in ArtifactUids, tag \in VerbatimTags, body \in VerbatimArtifactBodies,
           fail \in Failures :
           \E order \in StoreOrders(body), style \in Readers(floatStyles, body) :
              storeArtifactHandler(Storer, uid, "k", tag, body, order, fail, style)
  \/ \E fail \in Failures :
        \E labels \in LabelOrders(upd[Storer].patch),
           style \in Readers(floatStyles, upd[Storer].patch) :
           storeArtifactTag(Storer, labels, fail, style)
  \/ \E tag \in VerbatimTags, fail \in Failures : getArtifactHandler("k", tag, fail)
  \/ /\ WithinVerbatimOps
     /\ \E tag \in VerbatimTags :
           \E fail \in DeleteFailures(store, ArtifactPath(Project1, "k", DefaultTag(tag))) :
              deleteArtifactHandler("k", tag, fail)

SpecVerbatim == Init /\ [][NextVerbatim]_vars

\* The request stored a run or an artifact and ended with success.
StoredWithSuccess(r) == r.op \in {"storeRun", "storeArtifact"} /\ Succeeded(r)

\* The request read a run or an artifact and ended with success.
ReadWithSuccess(r) == r.op \in {"readRun", "getArtifact"} /\ Succeeded(r)

\* The path a read addressed.
ReadPath(r) == r.calls[1].path

\* The answer {"data": d}.
DataAnswer(d) == [wrap |-> "data", blobs |-> << d >>]

\* The blob attribute of the item at the path.
StoredBlob(st, path) == st[path][dataAttributeName]

\* C1: a successful read of a run path or of an artifact path answers
\* {"data": d} with d the blob that the item at the path holds; a store that
\* ends with success leaves the very bytes of its request body as that blob,
\* not re-serialized, at the path it wrote last; and so a read that follows
\* a successful store at a path the store wrote, with no write or delete
\* in between, answers with the stored request body byte for byte.
C1_StoreThenReadVerbatim ==
  [][ /\ (ReadWithSuccess(last') /\ last' # last)
         => last'.body = DataAnswer(StoredBlob(store, ReadPath(last')))
      /\ (StoredWithSuccess(last') /\ last' # last)
         => StoredBlob(store', last'.calls[Len(last'.calls)].path) = last'.req
      /\ ( /\ StoredWithSuccess(last)
           /\ ReadWithSuccess(last') /\ ReadPath(last') \in CallPaths(last) )
         => last'.body = DataAnswer(last.req) ]_vars

\* A read of the uid path of an artifact has answered with the YAML body of
\* the store before it, whose number 1.50 the conversion writes as 1.5,
\* while the run path holds the YAML body of an earlier store, whose
\* iteration 1.0 was indexed as 1.
C1_Witness ==
  /\ last.op = "getArtifact" /\ Succeeded(last)
  /\ ReadPath(last) = ArtifactPath(Project1, "k", "u1")
  /\ last.body = DataAnswer(YAMLBlob(TRUE, "client", DocArtifactSized))
  /\ RunPath(Project1, "u1") \in DOMAIN store
  /\ StoredBlob(store, RunPath(Project1, "u1")) = YAMLBlob(TRUE, "client", DocMeasured)
  /\ store[RunPath(Project1, "u1")]["metadata_iteration"] = Num("1")

(***************************************************************************)
(* The listings over a populated store (specification SpecList)            *)
(***************************************************************************)
\* The runs the listed store holds at most.
MaxListRuns == 4

\* The requests that change the store while a listing fetches its pages.
MaxListChanges == 1

T30 == "1970-01-01 00:00:00.000030"

T40 == "1970-01-01 00:00:00.000040"

T50 == "1970-01-01 00:00:00.000050"

T60 == "1970-01-01 00:00:00.000060"

\* The last update of the i-th run, in the order the runs were stored.
ListRunTimes == <<T10, T50, T30, T20, T40, T60, T05>>

ListRunUid(i) == "u" \o Char("1234567", i)

ListRunDoc(i) ==
  [DocFull EXCEPT ![<<"metadata", "name">>] = Str(IF i <= 2 THEN "train" ELSE "other"),
                  ![<<"metadata", "uid">>] = Str(ListRunUid(i)),
                  ![<<"status", "last_update">>] = Str(ListRunTimes[i]),
                  ![<<"status", "state">>] =
                     Str(IF i % 2 = 1 THEN "running" ELSE "completed")]

\* A body with no members whose names differ in case only and no labels
\* whose names collide leaves no order open.
NoOrder == [members |-> <<>>, labels |-> <<>>]

RECURSIVE StoredRuns(_, _, _)
\* The store after the runs of S, up to the i-th, were stored one by one.
StoredRuns(S, i, style) ==
  IF i = 0 THEN NoStore
  ELSE IF i \notin S THEN StoredRuns(S, i - 1, style)
  ELSE storeMetadataObject(StoredRuns(S, i - 1, style), RunPath(Project1, ListRunUid(i)),
                           JSONBlob("client", ListRunDoc(i)), NoAttributes,
                           runMakeInvalid(runMetadataEnvelopeZero), NoOrder, 0, style).store

\* The store after one artifact was stored on top, under its uid and under
\* the tag "latest".
StoredArtifact(st, style) ==
  storeMetadataObject(
    storeMetadataObject(st, ArtifactPath(Project1, "k", "u1"),
                        JSONBlob("client", DocArtifact), "name" :> Str("k"),
                        artifactMakeInvalid(artifactMetadataEnvelopeZero), NoOrder, 0, style).store,
    ArtifactPath(Project1, "k", "latest"), JSONBlob("client", DocArtifact),
    "name" :> Str("k"), artifactMakeInvalid(artifactMetadataEnvelopeZero), NoOrder, 0, style).store

InitList ==
  /\ floatStyles = FloatStyles
  /\ \E n \in 0 .. MaxListRuns, withArtifact \in BOOLEAN, style \in FloatStyles :
        store = IF withArtifact THEN StoredArtifact(StoredRuns(1 .. n, n, style), style)
                ELSE StoredRuns(1 .. n, n, style)
  /\ upd = [p \in Procs |-> IdleUpdate]
  /\ last = NoResponse
  /\ clock = 0

\* A value of the parameter last that no int holds, and its negative.
HugeLast == "99999999999999999999"

RunListRequests ==
  {RunListRequest(Project1, doSort, lastParam, <<>>, "", "") :
     doSort \in {"", "true"}, lastParam \in {"", "0", "3", "x", HugeLast, "-" \o HugeLast}}
    \cup {RunListRequest(Project1, "true", "3", <<>>, "completed", ""),
          RunListRequest(Project1, "true", "3", <<>>, "", "train"),
          RunListRequest(Project1, "", "", <<>>, "completed", "other"),
          RunListRequest("", "", "", <<>>, "", ""),
          RunListRequest(Project1, "", "", <<"a=x">>, "", "")}

\* A behaviour of SpecList is one listing of one store, and one delete of a
\* run by another request while the listing fetches its pages.
NextList ==
  \/ /\ last = NoResponse
     /\ \E q \in RunListRequests :
           \E fail \in CursorFailures(store, RunPrefix(q.project)) :
              \E page \in RunFirstPages(q, fail) : listRunsHandler(Lister, q, fail, page)
  \/ /\ last = NoResponse
     /\ \E q \in ArtifactListRequests :
           \E fail \in CursorFailures(store, ArtifactPrefix(q.project)) :
              \E page \in ArtifactFirstPages(q, fail) :
                 listArtifactsHandler(Lister, q, fail, page)
  \/ \E fail \in Failures :
        \E page \in NextPages(Lister, fail) : cursorAllSync(Lister, fail, page)
  \/ /\ upd[Lister].pc = "cursor"
     /\ clock < MaxListChanges
     /\ \E i \in 1 .. MaxListRuns :
           \E fail \in DeleteFailures(store, RunPath(Project1, ListRunUid(i))) :
              deleteRunHandler(ListRunUid(i), fail)

SpecList == InitList /\ [][NextList]_vars

(***************************************************************************)
(* Claims about the listings                                               *)
(***************************************************************************)
StoredRunPaths == {path \in DOMAIN store : HasPrefix(path, RunPrefix(Project1))}

LastUpdateEpoch(path) == store[path][encodeAttributeName("status.lasttimeEpoch")].n

RECURSIVE ByEpochDescending(_)
\* The blobs of the runs at the paths, the latest update first.
ByEpochDescending(paths) ==
  IF paths = {} THEN <<>>
  ELSE LET latest == CHOOSE path \in paths :
                       \A other \in paths : LastUpdateEpoch(other) <= LastUpdateEpoch(path)
       IN  << store[latest][dataAttributeName] >> \o ByEpochDescending(paths \ {latest})

\* The request is a run listing that ended with success while no other
\* request changed the store.
ListedAlone(r) == r.op = "listRuns" /\ Succeeded(r) /\ clock = 0

\* C3: a run listing with sort=true and a limit k > 0, with no filter and no
\* backend failure, over n stored runs of distinct last-update epochs answers
\* the min(k, n) runs of the greatest epochs, in descending order of epoch.
C3_LimitAndSort ==
  ( /\ ListedAlone(last)
    /\ last.query.doSort = "true" /\ last.query.key = "" /\ last.query.tag = ""
    /\ last.query.lastParam = "3" )
  => LET all == ByEpochDescending(StoredRunPaths)
     IN  last.body = [wrap |-> "runs",
                      blobs |-> SubSeq(all, 1, Min(Atoi(last.query.lastParam), Len(all)))]

\* C7: when the opening of the cursor is answered NotFound, the run listing
\* answers {"runs": []} and the artifact listing {"artifacts": []}, sets no
\* status and makes no further backend call.
C7_MissingPrefix ==
  ( /\ last.op \in {"listRuns", "listArtifacts"}
    /\ last.calls # <<>> /\ last.calls[1].status = StatusNotFound )
  => /\ last.body = [wrap |-> IF last.op = "listRuns" THEN "runs" ELSE "artifacts",
                     blobs |-> <<>>]
     /\ last.status = 0
     /\ ~last.panic
     /\ Len(last.calls) = 1

C7_Witness ==
  /\ last.op = "listRuns"
  /\ Len(last.calls) = 1 /\ last.calls[1].fn = "GetItems"
  /\ last.calls[1].path = "/run/p/" /\ last.calls[1].status = StatusNotFound
  /\ last.body = [wrap |-> "runs", blobs |-> <<>>]

(***************************************************************************)
(* Two update requests on one stored run (specification SpecUpdate)        *)
(***************************************************************************)
\* The steps (a read or a write of an update) one behaviour of SpecUpdate makes.
MaxUpdateSteps == 4

UpdatedPath == RunPath(Project1, "u1")

\* The store after the run was stored, as JSON or as YAML.
StoredRun(body, style) ==
  storeMetadataObject(NoStore, UpdatedPath, body, NoAttributes,
                      runMakeInvalid(runMetadataEnvelopeZero), NoOrder, 0, style).store

\* The runs the updates find: one without and one with numbers that the
\* codec writes in another text, each as JSON and as YAML.
UpdatedRuns ==
  { JSONBlob("client", DocFull), YAMLBlob(TRUE, "client", DocFull),
    JSONBlob("client", DocRated), YAMLBlob(TRUE, "client", DocMeasured) }

InitUpdate ==
  /\ \E body \in UpdatedRuns :
        \E style \in Readers(FloatStyles, body) :
           /\ store = StoredRun(body, style)
           /\ floatStyles = Learned(FloatStyles, body, style)
  /\ upd = [p \in Procs |-> IdleUpdate]
  /\ last = NoResponse
  /\ clock = 0

\* A number that sjson writes as 2.5.
PatchRate == <<"spec.rate">> :> Num("2.50")

ConcurrentPatches ==
  { JSONBlob("client", PatchState), JSONBlob("client", PatchLabel),
    JSONBlob("client", PatchTimeAndCmd), JSONBlob("client", PatchRate) }

WithinUpdateSteps == clock < MaxUpdateSteps

NextUpdate ==
  \/ /\ WithinUpdateSteps
     /\ \E p \in Procs, body \in ConcurrentPatches, fail \in Failures :
           \E style \in Readers(floatStyles, body) :
              \E order \in ReadOrders(body, style) :
                 updateRunHandlerRead(p, "u1", body, order, fail, style)
  \/ /\ WithinUpdateSteps
     /\ \E p \in Procs, fail \in Failures :
           \E order \in WriteOrders(upd[p]), style \in Readers(floatStyles, upd[p].oldBody) :
              updateRunHandlerWrite(p, order, fail, style)

SpecUpdate == InitUpdate /\ [][NextUpdate]_vars

\* Both requests of p and q wrote and ended with success, both read before
\* either wrote, and q wrote last.
Interleaved(p, q) ==
  /\ p # q
  /\ upd[p].pc = "done" /\ upd[q].pc = "done"
  /\ upd[p].status = 0 /\ upd[q].status = 0
  /\ upd[p].wrote /\ upd[q].wrote
  /\ upd[p].path = upd[q].path
  /\ upd[p].readAt < upd[p].writeAt /\ upd[p].readAt < upd[q].writeAt
  /\ upd[q].readAt < upd[p].writeAt /\ upd[q].readAt < upd[q].writeAt
  /\ upd[p].writeAt < upd[q].writeAt

StoredDoc(path) == store[path][dataAttributeName].doc

\* The path a key of object names, joined by dots, names.
PatchPath(key) ==
  LET parts == parsePath(key[1]).parts IN [i \in 1 .. Len(parts) |-> parts[i].part]

\* Two scalars are one value: two numbers when they are the same decimal,
\* whatever their texts, any other two when they are equal.
SameValue(a, b) ==
  IF a.k = "n" /\ b.k = "n"
  THEN LET x == Decimal(a.s)
           y == Decimal(b.s)
       IN  x = y \/ (x.digits = "" /\ y.digits = "")
  ELSE a = b

SameDoc(v, w) == DOMAIN v = DOMAIN w /\ \A path \in DOMAIN v : SameValue(v[path], w[path])

\* The document a reader of the blob decodes: what the YAML parser of the
\* build reads in a YAML text, the document itself of a JSON text.
ValueOf(data, style) ==
  IF data.syntax = "yaml" THEN Reencoded(data.doc, FALSE, style) ELSE data.doc

\* The document new has every value of the patch at its path, and every
\* value of the document old at a path that no key of the patch names, lies
\* under or lies over.
PatchedDoc(old, patch, new) ==
  /\ \A key \in DOMAIN patch :
        SameDoc(SubDoc(new, PatchPath(key)), Leaf(patch[key]))
  /\ \A path \in DOMAIN old :
        (\A key \in DOMAIN patch : ~Overlap(path, PatchPath(key)))
        => path \in DOMAIN new /\ SameValue(new[path], old[path])

\* The blob new is the blob old with the patch: as the values that a reader
\* decodes and, when old is JSON, which sjson edits in place, in the text
\* that old has a value in.
Patched(old, patch, new, style) ==
  /\ PatchedDoc(ValueOf(old, style), patch, ValueOf(new, style))
  /\ ~isYAML(old) => \A path \in DOMAIN old.doc :
                         (\A key \in DOMAIN patch : ~Overlap(path, PatchPath(key)))
                         => new.doc[path] = old.doc[path]

\* The keys of p's patch whose path q's patch does not touch.
OnlyIn(p, q) ==
  {key \in DOMAIN upd[p].patch.doc :
     \A other \in DOMAIN upd[q].patch.doc : ~Overlap(PatchPath(key), PatchPath(other))}

\* C6: when two successful update requests on one path both read before
\* either writes, the stored blob is the blob they read merged with the patch
\* of the last writer alone: what only the first writer's patch wrote is lost.
C6_LostUpdate ==
  \A p, q \in Procs, style \in floatStyles :
     Interleaved(p, q) =>
        /\ upd[p].oldBody = upd[q].oldBody
        /\ Patched(upd[q].oldBody, upd[q].patch.doc, StoredBlob(store, upd[q].path), style)
        /\ \A key \in OnlyIn(p, q) :
              SameDoc(SubDoc(ValueOf(StoredBlob(store, upd[q].path), style), PatchPath(key)),
                      SubDoc(ValueOf(upd[q].oldBody, style), PatchPath(key)))

\* On a run stored as YAML the first writer set the rate 2.50, the last
\* writer added a label: the stored blob has the label and still the rate
\* that was read, 1.50, which the last writer's round trip wrote as 1.5,
\* and the scale 1e21, which a parser whose pattern wants a sign in the
\* exponent read as a string and wrote back as it was.
C6_Witness ==
  /\ Interleaved(1, 2)
  /\ upd[1].patch.doc = PatchRate /\ upd[2].patch.doc = PatchLabel
  /\ upd[2].oldBody = YAMLBlob(TRUE, "client", DocMeasured)
  /\ StoredDoc(UpdatedPath)[<<"spec", "rate">>] = Num("1.5")
  /\ StoredDoc(UpdatedPath)[<<"metadata", "iteration">>] = Num("1")
  /\ StoredDoc(UpdatedPath)[<<"metadata", "labels", "b">>] = Str("y")
  /\ floatStyles = {"signed"}
  /\ StoredDoc(UpdatedPath)[<<"spec", "scale">>] = Str("1e21")

(***************************************************************************)
(* The encoder's treatment of timestamp strings, checked on the attributes *)
(* a run store writes (specification Spec).                                *)
(***************************************************************************)
\* The string fields of the run envelope that may hold a timestamp.
TimeFields == {<<"status", "last_update">>, <<"status", "start_time">>}

\* The layout of a timestamp: d stands for a digit.
TimestampShape == "dddd-dd-dd dd:dd:dd.dddddd"

\* The text is written as YYYY-MM-DD HH:MM:SS.ffffff.
MatchesFormat(s) ==
  /\ Len(s) = Len(TimestampShape)
  /\ \A i \in 1 .. Len(s) :
        IF Char(TimestampShape, i) = "d" THEN Char(s, i) \in Digits
        ELSE Char(s, i) = Char(TimestampShape, i)

\* C11: a string field whose value matches the timestamp layout is written
\* both as the integer attribute <name>Epoch (nanoseconds) and as the
\* string attribute <name> holding the original text.
C11_TimestampBothAttributes ==
  (last.op = "storeRun" /\ last.calls # <<>>) =>
     LET doc        == last.req.doc
         attributes == last.calls[1].attributes
     IN  \A path \in TimeFields :
           ( /\ path \in DOMAIN doc
             /\ doc[path].k = "s"
             /\ MatchesFormat(doc[path].s) )
           => /\ (RunFieldAttribute[path] \o "Epoch") \in DOMAIN attributes
              /\ ~timeParse(doc[path].s).err
                   => attributes[RunFieldAttribute[path] \o "Epoch"]
                        = Int64(timeParse(doc[path].s).nanos)
              /\ RunFieldAttribute[path] \in DOMAIN attributes
              /\ attributes[RunFieldAttribute[path]] = Str(doc[path].s)

(***************************************************************************)
(* The label parser and the filter builders on their own (specification    *)
(* SpecFilter): label texts are drawn from the strings over a small        *)
(* alphabet that holds every character the parser distinguishes.           *)
(***************************************************************************)
\* The alternatives of labelParsingRegex's second group, in its order.
LabelOperators == << "~=", "!=", "=" >>

\* (.+)(~=|!=|=)(.+) matches from s with its first group ending at e and its
\* second group being alternative i; the third group takes the rest.
LabelMatchAt(text, s, e, i) ==
  LET op == LabelOperators[i]
  IN  /\ s <= e
      /\ e + Len(op) < Len(text)
      /\ SubSeq(text, e + 1, e + Len(op)) = op

\* labelParsingRegex.FindStringSubmatch(text): the leftmost match, the first
\* group as long as it can be, then the first alternative that fits. The
\* texts hold no line break, so "." matches every character.
labelParsingRegexFind(text) ==
  LET starts == {s \in 1..Len(text) :
                   \E e \in s..Len(text), i \in 1..3 : LabelMatchAt(text, s, e, i)}
  IN  IF starts = {} THEN <<>>
      ELSE LET s  == CHOOSE x \in starts : \A y \in starts : x <= y
               es == {e \in s..Len(text) : \E i \in 1..3 : LabelMatchAt(text, s, e, i)}
               e  == CHOOSE x \in es : \A y \in es : x >= y
               is == {i \in 1..3 : LabelMatchAt(text, s, e, i)}
               i  == CHOOSE x \in is : \A y \in is : x <= y
               op == LabelOperators[i]
           IN  << SubSeq(text, s, Len(text)), SubSeq(text, s, e), op,
                  SubSeq(text, e + Len(op) + 1, Len(text)) >>

parseLabelToV3IOFilterSubexpression(labelPrefix, text) ==
  LET result  == labelParsingRegexFind(text)
      prefix  == IF labelPrefix # "" THEN labelPrefix \o "." ELSE labelPrefix
  IN  IF Len(result) # 4 THEN "exists(" \o encodeAttributeName(prefix \o text) \o ")"
      ELSE LET label == encodeAttributeName(prefix \o result[2])
               op    == result[3]
               comp  == result[4]
           IN  CASE op = "~=" -> "contains(" \o label \o ",'" \o comp \o "')"
                 [] op = "="  -> label \o "='" \o comp \o "'"
                 [] op = "!=" -> label \o "='" \o comp \o "'"
                 [] OTHER     -> "<unknown field>"

\* The longest label text drawn.
MaxTokenLen == 4

LabelAlphabet == {"k", "v", "~", "!", "="}

RECURSIVE StringsUpTo(_, _)
StringsUpTo(alphabet, n) ==
  IF n = 0 THEN {""}
  ELSE LET shorter == StringsUpTo(alphabet, n - 1)
       IN  shorter \cup {s \o c : s \in shorter, c \in alphabet}

LabelTexts == StringsUpTo(LabelAlphabet, MaxTokenLen) \ {""}

\* The prefix each handler passes to the parser for its label parameters.
HandlerLabelPrefix ==
  "listRuns" :> "metadata" @@ "deleteRuns" :> "" @@
  "listArtifacts" :> "metadata" @@ "deleteArtifacts" :> "metadata"

\* The call a handler makes for one label parameter.
parseLabelCall(handler, text) ==
  /\ last' = Response(handler, 0, HandlerLabelPrefix[handler],
                      Query("", "", "", << text >>, "", ""), EmptyBytes, 0,
                      [wrap |-> "filter",
                       blobs |-> << parseLabelToV3IOFilterSubexpression(
                                      HandlerLabelPrefix[handler], text) >>],
                      <<>>, FALSE)
  /\ UNCHANGED <<store, upd, clock, floatStyles>>

\* The label parameters of one request at most.
MaxLabels == 2

RECURSIVE SeqsUpTo(_, _)
SeqsUpTo(S, n) ==
  IF n = 0 THEN {<<>>}
  ELSE LET shorter == SeqsUpTo(S, n - 1)
       IN  shorter \cup {Append(s, x) : s \in shorter, x \in S}

\* The values of the labels map: parsed label parameters, in the order the
\* range over the map visits them.
FilterLabels ==
  SeqsUpTo({parseLabelToV3IOFilterSubexpression("metadata", text) : text \in {"k=v", "k"}},
           MaxLabels)

FilterNames == {"", "n"}

FilterStates == {"", "s"}

FilterTags == {"", "t"}

\* Thresholds: the -1 the handlers pass, 0, and one above 0.
FilterThresholds == {-1, 0, 65}

\* One call of buildRunFilterString; proc carries the threshold.
buildRunFilterCall(labels, name, state, endPosixDate) ==
  /\ last' = Response("buildRunFilterString", endPosixDate, "",
                      Query("", name, state, labels, "", ""), EmptyBytes, 0,
                      [wrap |-> "filter",
                       blobs |-> << buildRunFilterString(labels, name, state, endPosixDate) >>],
                      <<>>, FALSE)
  /\ UNCHANGED <<store, upd, clock, floatStyles>>

\* One call of buildArtifactFilterString.
buildArtifactFilterCall(labels, name, tag) ==
  /\ last' = Response("buildArtifactFilterString", 0, "",
                      Query("", name, tag, labels, "", ""), EmptyBytes, 0,
                      [wrap |-> "filter",
                       blobs |-> << buildArtifactFilterString(labels, name, tag) >>],
                      <<>>, FALSE)
  /\ UNCHANGED <<store, upd, clock, floatStyles>>

\* The three functions keep no state, so a later call of a behaviour would
\* answer as the first call of another behaviour does: a behaviour of
\* SpecFilter is one call.
NextFilter ==
  \/ /\ last = NoResponse
     /\ \E handler \in DOMAIN HandlerLabelPrefix, text \in LabelTexts :
           parseLabelCall(handler, text)
  \/ /\ last = NoResponse
     /\ \E labels \in FilterLabels, name \in FilterNames, state \in FilterStates,
           endPosixDate \in FilterThresholds :
           buildRunFilterCall(labels, name, state, endPosixDate)
  \/ /\ last = NoResponse
     /\ \E labels \in FilterLabels, name \in FilterNames, tag \in FilterTags :
           buildArtifactFilterCall(labels, name, tag)

SpecFilter == Init /\ [][NextFilter]_vars

\* Keys and values without an operator character.
PlainTexts == StringsUpTo({"k", "v"}, 2) \ {""}

\* The sanitized, prefixed attribute name of a label key.
LabelAttribute(labelPrefix, key) ==
  encodeAttributeName((IF labelPrefix # "" THEN labelPrefix \o "." ELSE "") \o key)

\* C12: k~=v gives contains(K,'v'); k=v and k!=v give K='v'; a text without
\* an operator gives exists(K); K is the sanitized prefixed key.
C12_LabelParsing ==
  (last.op \in DOMAIN HandlerLabelPrefix /\ last.body.wrap = "filter") =>
     LET text   == last.query.labelsParams[1]
         result == last.body.blobs[1]
     IN  \A key \in PlainTexts :
           LET K == LabelAttribute(last.path, key)
           IN  /\ text = key => result = "exists(" \o K \o ")"
               /\ \A value \in PlainTexts :
                    /\ text = key \o "~=" \o value
                         => result = "contains(" \o K \o ",'" \o value \o "')"
                    /\ text = key \o "=" \o value
                         => result = K \o "='" \o value \o "'"
                    /\ text = key \o "!=" \o value
                         => result = K \o "='" \o value \o "'"

\* The attributes the encoder stores for a document that carries the label
\* key = value and nothing else: a run for the run handlers, an artifact for
\* the artifact handlers.
StoredLabelAttributes(handler, key, value) ==
  IF handler \in {"listRuns", "deleteRuns"}
  THEN metadataToV3ioAttributes(
         jsonUnmarshal(JSONBlob("client", <<"metadata", "labels", key>> :> Str(value)),
                       runMakeInvalid(runMetadataEnvelopeZero), <<>>).fields,
         "", NoAttributes, <<>>)
  ELSE metadataToV3ioAttributes(
         jsonUnmarshal(JSONBlob("client", <<"labels", key>> :> Str(value)),
                       artifactMakeInvalid(artifactMetadataEnvelopeZero), <<>>).fields,
         "", NoAttributes, <<>>)

\* C13: the clause a listing or delete-by-query handler builds for the label
\* text key=value tests the attribute under which the encoder stores that
\* label, so the stored document satisfies the clause.
C13_FilterMatchesEncoder ==
  (last.op \in DOMAIN HandlerLabelPrefix /\ last.body.wrap = "filter") =>
     LET text   == last.query.labelsParams[1]
         result == last.body.blobs[1]
     IN  \A key \in PlainTexts, value \in PlainTexts :
           text = key \o "=" \o value
           => LET stored == StoredLabelAttributes(last.op, key, value)
              IN  \E name \in DOMAIN stored :
                    /\ stored[name] = Str(value)
                    /\ result = name \o "='" \o value \o "'"

\* C14: the run listing answers at most L entries, L being the integer value
\* of the last parameter when it parses and 30 when it does not; L = 0 leaves
\* the answer unbounded.
C14_EffectiveLimit ==
  ListedAlone(last)
  => LET L == LastOnParseError(last.query.lastParam)
         n == Cardinality(QueryPaths(store, RunPrefix(last.query.project),
                                     last.calls[1].filter))
     IN  Len(last.body.blobs) = IF L # "0" /\ Exceeds(n, L) THEN Atoi(L) ELSE n

(***************************************************************************)
(* The deletes by query (specification SpecDelete). A behaviour is one     *)
(* delete by query of one store, and one delete of a run by another        *)
(* request while the first is under way: the initial stores are the full   *)
(* store and every store that deletes can leave of it, so the store a      *)
(* second request of a behaviour would meet is the initial store of        *)
(* another behaviour.                                                      *)
(***************************************************************************)
\* The runs of the full store.
MaxDeleteRuns == 3

\* The runs 1..MaxDeleteRuns and one artifact under its uid and under "latest".
FullStore(style) == StoredArtifact(StoredRuns(1..MaxDeleteRuns, MaxDeleteRuns, style), style)

InitDelete ==
  /\ floatStyles = FloatStyles
  /\ \E style \in FloatStyles :
        \E paths \in SUBSET DOMAIN FullStore(style) :
           store = [path \in paths |-> FullStore(style)[path]]
  /\ upd = [p \in Procs |-> IdleUpdate]
  /\ last = NoResponse
  /\ clock = 0

\* How the backend can answer the delete of one item that exists.
ItemDeleteAnswers == {0, 500, 503}

RunDeleteRequests ==
  { RunListRequest(Project1, "", "", <<>>, "", ""),
    RunListRequest(Project1, "", "", <<>>, "completed", ""),
    RunListRequest(Project1, "", "", <<>>, "", "train"),
    RunListRequest("", "", "", <<>>, "", ""),
    RunListRequest("", "", "", <<"a=x">>, "", "") }

ArtifactDeleteRequests ==
  { ListRequest(Project1, "*", <<>>, ""), ListRequest(Project1, "", <<>>, ""),
    ListRequest("", "", <<>>, ""), ListRequest(Project1, "", <<"a=x">>, "") }

NextDelete ==
  \/ /\ last = NoResponse
     /\ \E q \in RunDeleteRequests :
           \E fail \in CursorFailures(store, RunPrefix(q.project)) :
              \E page \in RunFirstPages(q, fail) : deleteRunsHandler(Lister, q, fail, page)
  \/ /\ last = NoResponse
     /\ \E q \in ArtifactDeleteRequests :
           \E fail \in CursorFailures(store, ArtifactPrefix(q.project)) :
              \E page \in ArtifactFirstPages(q, fail) :
                 deleteArtifactsHandler(Lister, q, fail, page)
  \/ \E fail \in Failures :
        \E page \in NextPages(Lister, fail) : cursorAllSync(Lister, fail, page)
  \/ \E fail \in ItemDeleteAnswers \cup DeleteFailures(store, NextDeleted(Lister)) :
        deleteCursorItem(Lister, fail)
  \/ /\ ~Free(Lister)
     /\ last = NoResponse
     /\ \E i \in 1 .. MaxDeleteRuns :
           \E fail \in DeleteFailures(store, RunPath(Project1, ListRunUid(i))) :
              deleteRunHandler(ListRunUid(i), fail)

SpecDelete == InitDelete /\ [][NextDelete]_vars

DeleteByQuery == {"deleteRuns", "deleteArtifacts"}

RECURSIVE ItemDeletes(_)
\* The per-item deletes among the calls of a delete by query.
ItemDeletes(calls) ==
  IF calls = <<>> THEN <<>>
  ELSE (IF Head(calls).fn = "DeleteObject" THEN << Head(calls) >> ELSE <<>>)
         \o ItemDeletes(Tail(calls))

\* The error of the last failed call of the sequence, 0 if none failed.
LastFailure(deletes) ==
  LET failed == {i \in 1..Len(deletes) : deletes[i].status # 0}
  IN  IF failed = {} THEN 0
      ELSE deletes[CHOOSE i \in failed : \A j \in failed : j <= i].status

\* The calls the request of the process has made after the step.
CallsAfter(p) == IF upd'[p].pc = "delete" THEN upd'[p].calls ELSE last'.calls

\* C15: a delete by query issues one delete for each item its query
\* returned, whatever the earlier deletes answered; an item whose delete
\* succeeded is gone; the status is that of the last failed delete, and
\* success if none failed.
C15_BatchDeletePartialFailure ==
  [][ \A p \in Procs :
        (upd[p].pc = "delete" /\ upd'[p] # upd[p])
        => LET item  == Head(upd[p].todo)
               calls == CallsAfter(p)
               call  == calls[Len(calls)]
           IN  /\ Len(calls) = Len(upd[p].calls) + 1
               /\ call.fn = "DeleteObject" /\ call.path = item
               /\ DOMAIN store' = IF call.status = 0 THEN DOMAIN store \ {item}
                                  ELSE DOMAIN store
               /\ \A path \in DOMAIN store' : store'[path] = store[path]
               /\ IF Len(upd[p].todo) > 1
                  THEN upd'[p].pc = "delete" /\ upd'[p].todo = Tail(upd[p].todo)
                  ELSE /\ last'.op = upd[p].op /\ last'.op \in DeleteByQuery
                       /\ ~last'.panic
                       /\ last'.status = StatusCode(LastFailure(ItemDeletes(calls)))
                       /\ \A i \in 1 .. Len(calls) :
                             (calls[i].fn = "DeleteObject" /\ calls[i].status = 0)
                             => calls[i].path \notin DOMAIN store' ]_vars

\* A delete of runs by query met an error, then a different error, then
\* deleted the third run: the second error is the status and the third run
\* is gone.
C15_Witness ==
  /\ last.op = "deleteRuns"
  /\ LET deletes == ItemDeletes(last.calls)
     IN  /\ Len(deletes) = 3
         /\ deletes[1].status = 500 /\ deletes[2].status = 503 /\ deletes[3].status = 0
         /\ deletes[3].path \notin DOMAIN store
         /\ deletes[1].path \in DOMAIN store
  /\ last.status = 503

(***************************************************************************)
(* Malformed requests to the run handlers (specification Spec)             *)
(***************************************************************************)
\* Bytes that are not well-formed in the syntax their first bytes announce.
IsMalformed(body) ==
  \/ body.syntax = "bad"
  \/ ~isYAML(body) /\ body.syntax # "json"

\* A well-formed body that does not decode into the run envelope.
DoesNotDecode(body) ==
  /\ ~IsMalformed(body)
  /\ \E style \in floatStyles :
        \E members \in MemberOrders(convertDataToJSON(body, style).data.doc) :
           jsonUnmarshal(convertDataToJSON(body, style).data,
                         runMakeInvalid(runMetadataEnvelopeZero), members).err

\* A well-formed patch that is not a JSON object of scalar members.
NotFlatObject(body) ==
  /\ ~IsMalformed(body)
  /\ \E path \in DOMAIN body.doc : Len(path) # 1

\* C16: a store whose body is malformed or does not decode into the envelope,
\* and an update whose patch is malformed or is not a flat JSON object, answer
\* 400, make no backend call that writes and leave the store as it was.
C16_MalformedIsBadRequest ==
  [][ ( /\ last' # last
        /\ \/ last'.op = "storeRun" /\ (IsMalformed(last'.req) \/ DoesNotDecode(last'.req))
           \/ last'.op = "updateRun" /\ (IsMalformed(last'.req) \/ NotFlatObject(last'.req)) )
      => /\ last'.status = StatusBadRequest
         /\ \A i \in 1..Len(last'.calls) : last'.calls[i].fn # "UpdateItem"
         /\ store' = store ]_vars

\* C17: no backend call is repeated after it failed, and a request one of
\* whose backend calls failed, other than the opening of a listing's cursor
\* answered NotFound, ends with the status of that failure.
C17_FailuresSurfaced ==
  ~last.panic =>
     /\ \A i \in 1..Len(last.calls) :
          ( /\ last.calls[i].status # 0
            /\ ~(last.calls[i].fn = "GetItems" /\ last.calls[i].status = StatusNotFound) )
          => last.status = last.calls[i].status
     /\ \A i \in 1..Len(last.calls) : \A j \in (i + 1)..Len(last.calls) :
          ~( /\ last.calls[i].status # 0
             /\ last.calls[j].fn = last.calls[i].fn
             /\ last.calls[j].path = last.calls[i].path )

\* C18: when the opening of the cursor is answered NotFound, each of the four
\* handlers that query the backend ends without an error status and makes no
\* further backend call.
C18_QueryNotFoundIsEmpty ==
  ( /\ last.op \in {"listRuns", "deleteRuns", "listArtifacts", "deleteArtifacts"}
    /\ last.calls # <<>>
    /\ last.calls[1].fn = "GetItems" /\ last.calls[1].status = StatusNotFound )
  => /\ last.status = 0
     /\ ~last.panic
     /\ Len(last.calls) = 1

FilterBuilders == {"buildRunFilterString", "buildArtifactFilterString"}

\* The input terms of a filter builder's call that are not empty.
FilterTerms(r) ==
  (IF r.query.key # "" THEN 1 ELSE 0) + (IF r.query.tag # "" THEN 1 ELSE 0)
    + Len(r.query.labelsParams) + (IF r.proc > 0 THEN 1 ELSE 0)

\* C19: the filter a builder returns is its non-empty input terms' clauses,
\* one each, joined by " AND " with no connective in front or behind; it is
\* empty when every input is empty.
C19_FilterIsConjunction ==
  last.op \in FilterBuilders =>
     LET result  == last.body.blobs[1]
         clauses == SplitAnd(result)
     IN  /\ Len(clauses) = FilterTerms(last)
         /\ \A i \in 1..Len(clauses) : clauses[i] # ""
         /\ ~HasPrefix(result, " AND ") /\ ~HasSuffix(result, " AND ")
         /\ FilterTerms(last) = 0 <=> result = ""
         /\ \A i \in 1..Len(last.query.labelsParams) :
              \E j \in 1..Len(clauses) : clauses[j] = last.query.labelsParams[i]
         /\ last.query.key # "" =>
              clauses[1] = (IF last.op = "buildRunFilterString"
                            THEN "metadata_name" ELSE "name")
                             \o "== \"" \o last.query.key \o "\""

\* A run filter was built from a name, a state, two labels and a threshold:
\* five clauses.
C19_Witness ==
  /\ last.op = "buildRunFilterString"
  /\ last.query.key = "n" /\ last.query.tag = "s"
  /\ Len(last.query.labelsParams) = 2 /\ last.proc > 0
  /\ Len(SplitAnd(last.body.blobs[1])) = 5


\* What the merge of the request answers when the range visits the keys in
\* the given order.
MergedIn(r, order) == dotSeparatedPathToJSON(r.req, r.body.blobs[1], order)

\* C20: for a patch whose keys do not overlap, every order of application
\* gives the document the merge answered; for any patch the answer is the one
\* of some order of application.
C20_MergeOrderIndependent ==
  (last.op = "merge") =>
     LET orders == Orders(TopKeys(last.req.doc))
     IN  /\ NonOverlapping(last.req.doc)
            => \A order \in orders :
                  /\ MergedIn(last, order).err = (last.status # 0)
                  /\ MergedIn(last, order).data = last.body.blobs[2]
         /\ \E order \in orders :
               /\ MergedIn(last, order).err = (last.status # 0)
               /\ MergedIn(last, order).data = last.body.blobs[2]

(***************************************************************************)
(* The sort keys of the run listing (specification SpecList)               *)
(***************************************************************************)
\* The positions of the response at which the blob stored at the path stands.
PositionsOf(blobs, path) ==
  {i \in 1..Len(blobs) : blobs[i] = store[path][dataAttributeName]}

HasLastUpdateEpoch(path) ==
  encodeAttributeName("status.lasttimeEpoch") \in DOMAIN store[path]

\* C21: a run listing with no limit answers the blob of every retrieved item
\* exactly once, and the key it sorts an item by is the item's last-update
\* epoch when the item has one: of two retrieved items with different epochs
\* a sorted listing answers the one of the greater epoch first.
C21_SortKeysDoNotCollide ==
  ( /\ ListedAlone(last)
    /\ LastOnParseError(last.query.lastParam) = "0" )
  => LET retrieved == QueryPaths(store, last.calls[1].path, last.calls[1].filter)
         blobs     == last.body.blobs
     IN  /\ Len(blobs) = Cardinality(retrieved)
         /\ \A path \in retrieved : Cardinality(PositionsOf(blobs, path)) = 1
         /\ last.query.doSort = "true" =>
              \A p, q \in retrieved :
                 ( /\ HasLastUpdateEpoch(p) /\ HasLastUpdateEpoch(q)
                   /\ LastUpdateEpoch(p) > LastUpdateEpoch(q) )
                 => \A i \in PositionsOf(blobs, p), j \in PositionsOf(blobs, q) : i < j

(***************************************************************************)
(* The index attributes an update writes (specification Spec)              *)
(***************************************************************************)
\* The index attributes of the envelope fields at or below a path: a scalar
\* field's attribute and its Epoch twin, a label's attribute.
AttributesAt(path) ==
  UNION {{RunFieldAttribute[field], RunFieldAttribute[field] \o "Epoch"} :
           field \in {f \in DOMAIN RunFieldAttribute : IsPrefix(path, f)}}
    \cup {"metadata_labels_" \o key :
            key \in {k \in LabelKeys : Overlap(path, <<"metadata", "labels", k>>)}}

\* The index attributes whose field a key of the patch names.
NamedAttributes(patch) == UNION {AttributesAt(PatchPath(key)) : key \in DOMAIN patch}

\* The attribute value the encoder derives from a string the patch sets.
EncodedString(field, text) ==
  IF timeParse(text).err THEN RunFieldAttribute[field] :> Str(text)
  ELSE (RunFieldAttribute[field] \o "Epoch") :> Int64(timeParse(text).nanos)

\* C22: the write of a successful update gives every index attribute whose
\* field a patch key names the patch's value, and leaves every other index
\* attribute of the item as it was: present with its value, or absent.
C22_UpdateRefreshesOnlyNamed ==
  [][ \A p \in Procs :
        ( /\ upd[p].pc = "read" /\ upd'[p].pc = "done" /\ upd'[p].status = 0
          /\ upd'[p].wrote
          /\ upd[p].path \in DOMAIN store )
        => LET patch == upd[p].patch.doc
               old   == IndexAttributes(store[upd[p].path])
               new   == IndexAttributes(store'[upd[p].path])
           IN  /\ \A key \in DOMAIN patch :
                    ( /\ Len(key) = 1 /\ PatchPath(key) \in DOMAIN RunFieldAttribute
                      /\ patch[key].k = "s" )
                    => \A a \in DOMAIN EncodedString(PatchPath(key), patch[key].s) :
                          /\ a \in DOMAIN new
                          /\ new[a] = EncodedString(PatchPath(key), patch[key].s)[a]
               /\ \A a \in (DOMAIN old \cup DOMAIN new) \ NamedAttributes(patch) :
                    /\ a \in DOMAIN old /\ a \in DOMAIN new
                    /\ new[a] = old[a] ]_vars

\* C23: a listing or a delete by query that carries label parameters ends
\* normally, and the filter it queries with has one clause for every label
\* parameter, the parameter's parsed predicate.
C23_LabelRequestCompletes ==
  ( /\ last.op \in DOMAIN HandlerLabelPrefix
    /\ last.body.wrap # "filter"
    /\ last.query.project # ""
    /\ last.query.labelsParams # <<>> )
  => /\ ~last.panic
     /\ last.calls # <<>>
     /\ \A i \in 1..Len(last.query.labelsParams) :
          \E j \in 1..Len(SplitAnd(last.calls[1].filter)) :
             SplitAnd(last.calls[1].filter)[j] =
               parseLabelToV3IOFilterSubexpression(HandlerLabelPrefix[last.op],
                                                   last.query.labelsParams[i])

(***************************************************************************)
(* Requests on a run path that does not exist (specification Spec)         *)
(***************************************************************************)
\* The request ended normally with the status of its one backend call, a
\* failed read.
EndedWithReadFailure(r) ==
  /\ Len(r.calls) = 1 /\ r.calls[1].fn = "GetItem"
  /\ r.calls[1].status # 0
  /\ r.status = r.calls[1].status
  /\ ~r.panic

\* The request made one backend call, a read that the backend answered
\* NotFound.
ReadNotFound(r) ==
  Len(r.calls) = 1 /\ r.calls[1].fn = "GetItem" /\ r.calls[1].status = StatusNotFound

\* C24: an update of a path that does not exist, its patch being well
\* formed, ends with the status of the failed read, not found, goes on to no
\* write and leaves the path missing; a read of a missing path ends with the
\* not-found status.
C24_UpdateNeverCreates ==
  [][ /\ \A p \in Procs :
          /\ ( /\ upd[p].pc # "read" /\ last' # last
               /\ last'.op = "updateRun" /\ last'.proc = p
               /\ ReadNotFound(last') )
             => /\ EndedWithReadFailure(last')
                /\ upd'[p].pc # "read"
                /\ store' = store
          /\ (upd[p].pc # "read" /\ upd'[p].pc = "read") => upd'[p].path \in DOMAIN store
      /\ (last' # last /\ last'.op = "readRun" /\ ReadNotFound(last'))
           => EndedWithReadFailure(last') ]_vars

(***************************************************************************)
(* Updates, deletes and stores on one stored run (specification SpecRace)  *)
(***************************************************************************)
\* The steps (a store, a delete, a read or a write of an update) one
\* behaviour of SpecRace makes.
MaxRaceSteps == 3

WithinRaceSteps == clock < MaxRaceSteps

NextRace ==
  \/ /\ WithinRaceSteps
     /\ \E p \in Procs, body \in ConcurrentPatches, fail \in Failures :
           \E style \in Readers(floatStyles, body) :
              \E order \in ReadOrders(body, style) :
                 updateRunHandlerRead(p, "u1", body, order, fail, style)
  \/ /\ WithinRaceSteps
     /\ \E p \in Procs, fail \in Failures :
           \E order \in WriteOrders(upd[p]), style \in Readers(floatStyles, upd[p].oldBody) :
              updateRunHandlerWrite(p, order, fail, style)
  \/ /\ WithinRaceSteps
     /\ \E fail \in DeleteFailures(store, UpdatedPath) : deleteRunHandler("u1", fail)
  \/ /\ WithinRaceSteps
     /\ \E fail \in Failures :
           \E style \in Readers(floatStyles, JSONBlob("client", DocFull)) :
              storeRunHandler("u1", JSONBlob("client", DocFull), NoOrder, fail, style)

SpecRace == InitUpdate /\ [][NextRace]_vars

\* C25: a run path that does not exist comes to exist only by a store
\* request on it; the write of an update does not bring it back.
C25_DeletedStaysDeleted ==
  [][ \A path \in DOMAIN store' \ DOMAIN store :
        last'.op = "storeRun" /\ last'.path = path ]_vars

(***************************************************************************)
(* What the delete of an artifact leaves (specification SpecArtifact)      *)
(***************************************************************************)
\* The path a get or delete request of an artifact addresses.
TagPath(r) == ArtifactPath(r.query.project, r.query.key, DefaultTag(r.query.tag))

\* No request has changed the store since the listing of the process began.
ListedUnchanged(p) == Free(p) \/ upd[p].readAt = clock

\* C26: a delete-artifact request makes one backend call, the delete of
\* /artifact/{project}/{key}.{tag}, and leaves every other path as it was,
\* the record under the uid included; an artifact listing with tag "*",
\* during which no request changes the store, answers the blob of every
\* record stored under the project.
C26_DeleteRemovesOnlyTagRecord ==
  [][ /\ (last' # last /\ last'.op = "deleteArtifact" /\ last'.query.key # "")
           => /\ Len(last'.calls) = 1
              /\ last'.calls[1].fn = "DeleteObject"
              /\ last'.calls[1].path = TagPath(last')
              /\ DOMAIN store' \subseteq DOMAIN store
              /\ \A path \in DOMAIN store \ {TagPath(last')} :
                    path \in DOMAIN store' /\ store'[path] = store[path]
      /\ ( /\ last' # last
           /\ last'.op = "listArtifacts" /\ last'.query.tag = "*" /\ last'.query.key = ""
           /\ Succeeded(last') /\ ListedUnchanged(last'.proc) )
           => \A path \in DOMAIN store :
                 HasPrefix(path, ArtifactPrefix(last'.query.project))
                 => \E i \in 1..Len(last'.body.blobs) :
                       last'.body.blobs[i] = store[path][dataAttributeName] ]_vars

\* A delete of the tag record has succeeded and the record stored under the
\* uid is the one that remains.
C26_Witness ==
  /\ last.op = "deleteArtifact" /\ last.status = 0
  /\ last.calls = << Call("DeleteObject", "/artifact/p/k.latest", "", NoItem, 0) >>
  /\ DOMAIN store = {"/artifact/p/k.u1"}
  /\ store["/artifact/p/k.u1"][dataAttributeName] = JSONBlob("client", DocArtifact)
====
